---------------------------- MODULE Spec2Model ----------------------------
(***************************************************************************)
(* Model of db-agent: the deadlock trigger (scripts/01_trigger_deadlock.py) *)
(* and the wait-for detector (DatabaseConnection.check_deadlocks and       *)
(* DatabaseAgent.check_deadlock).                                          *)
(*                                                                         *)
(* The database engine is the environment.  Its lock table and session     *)
(* table are the variables pg_locks and pg_stat_activity; a row-level      *)
(* FOR UPDATE lock is one pg_locks row on the row's resource descriptor,   *)
(* granted when no other session holds it and ungranted while it waits.    *)
(***************************************************************************)
EXTENDS Integers, Sequences, FiniteSets, TLC

(* ------------------------------ bounds -------------------------------- *)
\* main() loops forever (while True); the model stops after MaxRounds rounds.
MaxRounds == 2
\* the lock tables given to the detector hold at most MaxLocks rows
MaxLocks == 3
\* the agent is called at most MaxCalls times
MaxCalls == 2
\* connect / disconnect calls made on one DatabaseConnection
MaxOps == 4

(* ----------------------------- variables ------------------------------ *)
VARIABLES
    round,              \* round_id of main()
    mpc,                \* position of the main thread in main/run_deadlock_round
    lock1_acquired,     \* threading.Event, line 15
    lock2_acquired,     \* threading.Event, line 16
    pc,                 \* position of txn1 (index 1) and txn2 (index 2)
    conn,               \* the local conn of each script: none / open / closed
    cur,                \* the local cur of each script: none / open / closed
    err,                \* the exception in flight in each script
    result,             \* what each script did last: none/committed/rolledback
    raised,             \* the script's thread ended by an uncaught exception
    pg_locks,           \* the engine's lock table (view pg_locks)
    pg_stat_activity,   \* the engine's session table (view pg_stat_activity)
    db_connection,      \* _db_connection, the singleton of db_connection.py
    connection,         \* its _connection
    call,               \* how the last db.check_deadlocks() call ended
    envelope,           \* the last return value of DatabaseAgent.check_deadlock
    ncalls,             \* number of tool calls made
    tool,               \* the last tool called and how its body ended
    objects,            \* _connection of each DatabaseConnection object
    txn,                \* the transaction of each psycopg2 connection
    caller,             \* the threads calling check_deadlock: position, locals
    interference,       \* what one call did to another (history variable)
    ops,                \* the connect / disconnect calls made (history variable)
    hist,               \* observations of the current round (history variable)
    log                 \* one record per finished round (history variable)

vars == <<round, mpc, lock1_acquired, lock2_acquired, pc, conn, cur, err,
          result, raised, pg_locks, pg_stat_activity, db_connection,
          connection, call, envelope, ncalls, tool, objects, txn, caller,
          interference, ops, hist, log>>

\* the state of the agent process (server.py, db_connection.py)
callerVars == <<objects, txn, caller, interference>>
agentVars == <<db_connection, connection, call, envelope, ncalls, tool,
               callerVars, ops>>
\* the state of the trigger process (01_trigger_deadlock.py)
triggerVars == <<round, mpc, lock1_acquired, lock2_acquired, pc, conn, cur,
                 err, result, raised, hist, log>>

Txns == {1, 2}
Other(t) == 3 - t

(* ------------------------ resource descriptors ------------------------ *)
NULL == "NULL"

\* The descriptor columns of pg_locks named by the join of check_deadlocks.
RowLock(rel) ==
    [locktype |-> "tuple", database |-> "testdb", relation |-> rel,
     page |-> "0", tuple |-> "1", virtualxid |-> NULL, transactionid |-> NULL,
     classid |-> NULL, objid |-> NULL, objsubid |-> NULL]

\* txn1 locks orders then inventory; txn2 locks inventory then orders.
FirstRow(t)  == IF t = 1 THEN RowLock("orders") ELSE RowLock("inventory")
SecondRow(t) == IF t = 1 THEN RowLock("inventory") ELSE RowLock("orders")

\* A relation lock taken by a reader is shared, one waited for is exclusive;
\* a row lock is exclusive.
ModeOf(r, g) ==
    IF r.locktype = "relation"
       THEN (IF g THEN "RowShareLock" ELSE "AccessExclusiveLock")
       ELSE "ExclusiveLock"

LockRow(p, r, g) == [pid |-> p, res |-> r, mode |-> ModeOf(r, g), granted |-> g]

\* no check_deadlocks call made yet / no check_deadlock result yet
NoCall == [raised |-> FALSE, rows |-> <<>>]
NoEnvelope == [success |-> TRUE]
\* no tool called yet
NoTool == [name |-> "none", failure |-> "none", raised |-> FALSE]

Holds(p, r)   == LockRow(p, r, TRUE) \in pg_locks
Waits(p, r)   == LockRow(p, r, FALSE) \in pg_locks
HeldByOther(p, r) == \E l \in pg_locks : l.pid # p /\ l.res = r /\ l.granted
Release(p)    == {l \in pg_locks : l.pid # p}

\* The circular wait of section 4.3 step 4.
CircularWait ==
    /\ Holds(1, FirstRow(1)) /\ Waits(1, SecondRow(1))
    /\ Holds(2, FirstRow(2)) /\ Waits(2, SecondRow(2))

(* ----------------------------- sessions -------------------------------- *)
Session(p, q) == [pid |-> p, usename |-> "dbagent", query |-> q]

\* the session table after session p connected, ran statement q, disconnected
Closed(p) == {a \in pg_stat_activity : a.pid # p}
Opened(p) == Closed(p) \cup {Session(p, "")}
Executing(p, q) == Closed(p) \cup {Session(p, q)}

Query(r) == IF r.relation = "orders"
              THEN "SELECT * FROM orders WHERE order_id = 1 FOR UPDATE"
              ELSE "SELECT * FROM inventory WHERE product_id = 1 FOR UPDATE"

(* ------------------- threads calling check_deadlock -------------------- *)
Callers == {1, 2}

\* The DatabaseConnection objects there can be: one made before the calls
\* looked at, one made by each caller (db_connection.py line 187).
Object(c) == IF c = 1 THEN "DatabaseConnection1" ELSE "DatabaseConnection2"
Objects == {"DatabaseConnection"} \cup {Object(c) : c \in Callers}

\* The psycopg2 connections there can be: one opened before the calls
\* looked at, one opened by each caller (line 50).
Conn(c) == IF c = 1 THEN "connection1" ELSE "connection2"
Connections == {"connection"} \cup {Conn(c) : c \in Callers}

\* What a thread's use of cursor() has done so far (history): the
\* _connection found at line 73, whether line 74 connected, how the body
\* of the with statement ended, the commit / rollback calls made in order,
\* the exception leaving cursor(), and whether cur.close() was called.
NoUse == [found |-> "none", connected |-> FALSE, body |-> "none",
          ends |-> <<>>, error |-> "none", closed |-> FALSE]

\* a thread that is not in check_deadlock: db is the local of server.py
\* line 147, cur the connection its cursor (db_connection.py line 77) is of
NoThread == [pc |-> "idle", db |-> "None", cur |-> "None", exc |-> FALSE,
             res |-> "none", use |-> NoUse]

\* no transaction begun on a connection; by names the caller whose
\* statement made the transaction fail
NoTxn == [state |-> "idle", by |-> 0]

CallersIdle ==
    /\ objects = [o \in Objects |-> "absent"]
    /\ txn = [k \in Connections |-> NoTxn]
    /\ caller = [c \in Callers |-> NoThread]
    /\ interference = {}
    /\ ops = <<>>

(* ------------------------- history of a round -------------------------- *)
NoHist ==
    [got1    |-> [t \in Txns |-> FALSE],   \* first FOR UPDATE returned
     set     |-> [t \in Txns |-> FALSE],   \* the script set its event
     passed  |-> [t \in Txns |-> FALSE],   \* wait() returned
     req2    |-> [t \in Txns |-> FALSE],   \* second FOR UPDATE issued
     held2   |-> [t \in Txns |-> FALSE],   \* the peer held the row at that moment
     got2    |-> [t \in Txns |-> FALSE],   \* second FOR UPDATE granted
     early   |-> FALSE,                    \* a second lock granted, no victim yet
     caught  |-> [t \in Txns |-> "none"],  \* what the except clause caught
     victims |-> {},                       \* scripts the engine aborted
     cycle   |-> FALSE]                    \* the circular wait was reached

Note(h) == [h EXCEPT !.cycle = h.cycle \/ CircularWait']

(* ------------------------------ Init ---------------------------------- *)
Init ==
    /\ round = 1
    /\ mpc = "round"
    /\ lock1_acquired = FALSE
    /\ lock2_acquired = FALSE
    /\ pc = [t \in Txns |-> "idle"]
    /\ conn = [t \in Txns |-> "none"]
    /\ cur = [t \in Txns |-> "none"]
    /\ err = [t \in Txns |-> "none"]
    /\ result = [t \in Txns |-> "none"]
    /\ raised = [t \in Txns |-> FALSE]
    /\ pg_locks = {}
    /\ pg_stat_activity = {}
    /\ db_connection = "None"
    /\ connection = "None"
    /\ call = NoCall
    /\ envelope = NoEnvelope
    /\ ncalls = 0
    /\ tool = NoTool
    /\ CallersIdle
    /\ hist = NoHist
    /\ log = <<>>

(* ------------------- main / run_deadlock_round ------------------------ *)
\* line 80: a round begins
BeginRound ==
    /\ mpc = "round"
    /\ mpc' = "clear1"
    /\ hist' = NoHist
    /\ UNCHANGED <<round, lock1_acquired, lock2_acquired, pc, conn, cur, err,
                   result, raised, pg_locks, pg_stat_activity, agentVars, log>>

\* line 81: lock1_acquired.clear()
Clear1 ==
    /\ mpc = "clear1"
    /\ lock1_acquired' = FALSE
    /\ mpc' = "clear2"
    /\ UNCHANGED <<round, lock2_acquired, pc, conn, cur, err, result, raised,
                   pg_locks, pg_stat_activity, agentVars, hist, log>>

\* Clear2 with the clear() left out.
Clear2Skip ==
    /\ mpc = "clear2"
    /\ mpc' = "start1"
    /\ UNCHANGED <<round, lock1_acquired, lock2_acquired, pc, conn, cur, err,
                   result, raised, pg_locks, pg_stat_activity, agentVars, hist, log>>

\* line 82: lock2_acquired.clear()
Clear2 ==
    /\ mpc = "clear2"
    /\ lock2_acquired' = FALSE
    /\ mpc' = "start1"
    /\ UNCHANGED <<round, lock1_acquired, pc, conn, cur, err, result, raised,
                   pg_locks, pg_stat_activity, agentVars, hist, log>>

\* lines 84-88: a new thread runs the script from its first line, with fresh
\* locals; nothing here waits for an earlier thread of the same script.
StartThread(t) ==
    /\ pc' = [pc EXCEPT ![t] = "connect"]
    /\ conn' = [conn EXCEPT ![t] = "none"]
    /\ cur' = [cur EXCEPT ![t] = "none"]
    /\ err' = [err EXCEPT ![t] = "none"]
    /\ result' = [result EXCEPT ![t] = "none"]
    /\ raised' = [raised EXCEPT ![t] = FALSE]

Start1 ==
    /\ mpc = "start1"
    /\ StartThread(1)
    /\ mpc' = "start2"
    /\ UNCHANGED <<round, lock1_acquired, lock2_acquired, pg_locks, pg_stat_activity, agentVars, hist, log>>

Start2 ==
    /\ mpc = "start2"
    /\ StartThread(2)
    /\ mpc' = "join1"
    /\ UNCHANGED <<round, lock1_acquired, lock2_acquired, pg_locks, pg_stat_activity, agentVars, hist, log>>

\* Thread.join(): returns once the thread has ended, however it ended.
Joined(t) == pc[t] = "done"

\* line 90
Join1 ==
    /\ mpc = "join1"
    /\ Joined(1)
    /\ mpc' = "join2"
    /\ UNCHANGED <<round, lock1_acquired, lock2_acquired, pc, conn, cur, err,
                   result, raised, pg_locks, pg_stat_activity, agentVars, hist, log>>

\* Join2 returning whether or not the thread has ended.
Join2NoWait ==
    /\ mpc = "join2"
    /\ mpc' = "end"
    /\ UNCHANGED <<round, lock1_acquired, lock2_acquired, pc, conn, cur, err,
                   result, raised, pg_locks, pg_stat_activity, agentVars, hist, log>>

\* line 91
Join2 ==
    /\ mpc = "join2"
    /\ Joined(2)
    /\ mpc' = "end"
    /\ UNCHANGED <<round, lock1_acquired, lock2_acquired, pc, conn, cur, err,
                   result, raised, pg_locks, pg_stat_activity, agentVars, hist, log>>

Count(v) == Cardinality({t \in Txns : result[t] = v})

RoundRecord ==
    [formed    |-> hist.req2[1] /\ hist.req2[2],
     cycle     |-> hist.cycle,
     commits   |-> Count("committed"),
     rollbacks |-> Count("rolledback")]

\* lines 93, 100-101: the round ends, round_id += 1, and main loops
EndRound ==
    /\ mpc = "end"
    /\ log' = Append(log, RoundRecord)
    /\ IF round < MaxRounds
          THEN round' = round + 1 /\ mpc' = "round"
          ELSE round' = round /\ mpc' = "stop"
    /\ UNCHANGED <<lock1_acquired, lock2_acquired, pc, conn, cur, err,
                   result, raised, pg_locks, pg_stat_activity, agentVars, hist>>

(* --------------------------- txn1 / txn2 ------------------------------ *)
TxnUnchanged == UNCHANGED <<round, mpc, log, agentVars>>

\* lines 19-21 (50-52): connect, autocommit off, cursor.  Outside the try.
Connect(t) ==
    /\ pc[t] = "connect"
    /\ conn' = [conn EXCEPT ![t] = "open"]
    /\ cur' = [cur EXCEPT ![t] = "open"]
    /\ pc' = [pc EXCEPT ![t] = "set_timeout"]
    /\ pg_stat_activity' = Opened(t)
    /\ TxnUnchanged
    /\ UNCHANGED <<lock1_acquired, lock2_acquired, err, result, raised,
                   pg_locks, hist>>

\* line 19 (50) raises: no try encloses it, the thread ends with the exception.
ConnectFail(t) ==
    /\ pc[t] = "connect"
    /\ err' = [err EXCEPT ![t] = "dberr"]
    /\ raised' = [raised EXCEPT ![t] = TRUE]
    /\ pc' = [pc EXCEPT ![t] = "done"]
    /\ UNCHANGED pg_stat_activity
    /\ TxnUnchanged
    /\ UNCHANGED <<lock1_acquired, lock2_acquired, conn, cur, result,
                   pg_locks, hist>>

\* line 24 (55): SET deadlock_timeout
SetTimeout(t) ==
    /\ pc[t] = "set_timeout"
    /\ pc' = [pc EXCEPT ![t] = "lock_first"]
    /\ pg_stat_activity' = Executing(t, "SET deadlock_timeout = '10s'")
    /\ TxnUnchanged
    /\ UNCHANGED <<lock1_acquired, lock2_acquired, conn, cur, err, result,
                   raised, pg_locks, hist>>

\* line 27 (58): SELECT ... FOR UPDATE on the script's own row: the engine
\* grants the row lock if no other session holds it, else the call blocks.
LockFirst(t) ==
    /\ pc[t] = "lock_first"
    /\ IF HeldByOther(t, FirstRow(t))
          THEN /\ pg_locks' = pg_locks \cup {LockRow(t, FirstRow(t), FALSE)}
               /\ pc' = [pc EXCEPT ![t] = "first_wait"]
               /\ hist' = Note(hist)
          ELSE /\ pg_locks' = pg_locks \cup {LockRow(t, FirstRow(t), TRUE)}
               /\ pc' = [pc EXCEPT ![t] = "set"]
               /\ hist' = Note([hist EXCEPT !.got1[t] = TRUE])
    /\ pg_stat_activity' = Executing(t, Query(FirstRow(t)))
    /\ TxnUnchanged
    /\ UNCHANGED <<lock1_acquired, lock2_acquired, conn, cur, err, result, raised>>

\* SetEvent with the two events swapped: each script sets the event it waits on.
SetEventSwapped(t) ==
    /\ pc[t] = "set"
    /\ IF t = 1
          THEN lock2_acquired' = TRUE /\ UNCHANGED lock1_acquired
          ELSE lock1_acquired' = TRUE /\ UNCHANGED lock2_acquired
    /\ pc' = [pc EXCEPT ![t] = "wait"]
    /\ hist' = [hist EXCEPT !.set[t] = TRUE]
    /\ UNCHANGED pg_stat_activity
    /\ TxnUnchanged
    /\ UNCHANGED <<conn, cur, err, result, raised, pg_locks>>

\* line 28: lock1_acquired.set()   (line 59: lock2_acquired.set())
SetEvent(t) ==
    /\ pc[t] = "set"
    /\ IF t = 1
          THEN lock1_acquired' = TRUE /\ UNCHANGED lock2_acquired
          ELSE lock2_acquired' = TRUE /\ UNCHANGED lock1_acquired
    /\ pc' = [pc EXCEPT ![t] = "wait"]
    /\ hist' = [hist EXCEPT !.set[t] = TRUE]
    /\ UNCHANGED pg_stat_activity
    /\ TxnUnchanged
    /\ UNCHANGED <<conn, cur, err, result, raised, pg_locks>>

\* line 31: lock2_acquired.wait()  (line 62: lock1_acquired.wait()); no timeout
PeerEventSet(t) == IF t = 1 THEN lock2_acquired ELSE lock1_acquired

\* WaitEvent that returns without the peer's event.
WaitEventNoBlock(t) ==
    /\ pc[t] = "wait"
    /\ pc' = [pc EXCEPT ![t] = "sleep"]
    /\ hist' = [hist EXCEPT !.passed[t] = TRUE]
    /\ UNCHANGED pg_stat_activity
    /\ TxnUnchanged
    /\ UNCHANGED <<lock1_acquired, lock2_acquired, conn, cur, err, result,
                   raised, pg_locks>>

\* WaitEvent with a timeout: wait() also returns once the peer has ended.
WaitEventTimeout(t) ==
    /\ pc[t] = "wait"
    /\ PeerEventSet(t) \/ pc[Other(t)] = "done"
    /\ pc' = [pc EXCEPT ![t] = "sleep"]
    /\ hist' = [hist EXCEPT !.passed[t] = TRUE]
    /\ UNCHANGED pg_stat_activity
    /\ TxnUnchanged
    /\ UNCHANGED <<lock1_acquired, lock2_acquired, conn, cur, err, result,
                   raised, pg_locks>>

WaitEvent(t) ==
    /\ pc[t] = "wait"
    /\ PeerEventSet(t)
    /\ pc' = [pc EXCEPT ![t] = "sleep"]
    /\ hist' = [hist EXCEPT !.passed[t] = TRUE]
    /\ UNCHANGED pg_stat_activity
    /\ TxnUnchanged
    /\ UNCHANGED <<lock1_acquired, lock2_acquired, conn, cur, err, result,
                   raised, pg_locks>>

\* line 34 (64): time.sleep(1)
Sleep(t) ==
    /\ pc[t] = "sleep"
    /\ pc' = [pc EXCEPT ![t] = "lock_second"]
    /\ UNCHANGED pg_stat_activity
    /\ TxnUnchanged
    /\ UNCHANGED <<lock1_acquired, lock2_acquired, conn, cur, err, result,
                   raised, pg_locks, hist>>

\* LockSecond with FOR UPDATE SKIP LOCKED: a held row is skipped, the
\* statement returns without the lock.
LockSecondSkipLocked(t) ==
    /\ pc[t] = "lock_second"
    /\ IF HeldByOther(t, SecondRow(t))
          THEN /\ pg_locks' = pg_locks
               /\ hist' = Note([hist EXCEPT !.req2[t] = TRUE, !.held2[t] = TRUE])
          ELSE /\ pg_locks' = pg_locks \cup {LockRow(t, SecondRow(t), TRUE)}
               /\ hist' = Note([hist EXCEPT !.req2[t] = TRUE, !.got2[t] = TRUE,
                                            !.early = hist.early \/ hist.victims = {}])
    /\ pc' = [pc EXCEPT ![t] = "commit"]
    /\ pg_stat_activity' = Executing(t, Query(SecondRow(t)))
    /\ TxnUnchanged
    /\ UNCHANGED <<lock1_acquired, lock2_acquired, conn, cur, err, result, raised>>

\* line 37 (67): SELECT ... FOR UPDATE on the peer's row
LockSecond(t) ==
    /\ pc[t] = "lock_second"
    /\ IF HeldByOther(t, SecondRow(t))
          THEN /\ pg_locks' = pg_locks \cup {LockRow(t, SecondRow(t), FALSE)}
               /\ pc' = [pc EXCEPT ![t] = "second_wait"]
               /\ hist' = Note([hist EXCEPT !.req2[t] = TRUE, !.held2[t] = TRUE])
          ELSE /\ pg_locks' = pg_locks \cup {LockRow(t, SecondRow(t), TRUE)}
               /\ pc' = [pc EXCEPT ![t] = "commit"]
               /\ hist' = Note([hist EXCEPT !.req2[t] = TRUE, !.got2[t] = TRUE,
                                            !.early = hist.early \/ hist.victims = {}])
    /\ pg_stat_activity' = Executing(t, Query(SecondRow(t)))
    /\ TxnUnchanged
    /\ UNCHANGED <<lock1_acquired, lock2_acquired, conn, cur, err, result, raised>>

\* line 39 (69): conn.commit() ends the transaction and releases its locks
Commit(t) ==
    /\ pc[t] = "commit"
    /\ pg_locks' = Release(t)
    /\ result' = [result EXCEPT ![t] = "committed"]
    /\ pc' = [pc EXCEPT ![t] = "finally"]
    /\ hist' = Note(hist)
    /\ pg_stat_activity' = Executing(t, "COMMIT")
    /\ TxnUnchanged
    /\ UNCHANGED <<lock1_acquired, lock2_acquired, conn, cur, err, raised>>

\* ExceptRollback with the rollback() call left out.
ExceptSwallow(t) ==
    /\ pc[t] = "except"
    /\ err' = [err EXCEPT ![t] = "none"]
    /\ pc' = [pc EXCEPT ![t] = "finally"]
    /\ hist' = [hist EXCEPT !.caught[t] = err[t]]
    /\ UNCHANGED pg_stat_activity
    /\ TxnUnchanged
    /\ UNCHANGED <<lock1_acquired, lock2_acquired, conn, cur, result, raised,
                   pg_locks>>

\* lines 41-43 (71-73): except psycopg2.Error: print, conn.rollback().
\* The clause does not look at e.pgcode to decide what to do.
ExceptRollback(t) ==
    /\ pc[t] = "except"
    /\ pg_locks' = Release(t)
    /\ result' = [result EXCEPT ![t] = "rolledback"]
    /\ err' = [err EXCEPT ![t] = "none"]
    /\ pc' = [pc EXCEPT ![t] = "finally"]
    /\ hist' = Note([hist EXCEPT !.caught[t] = err[t]])
    /\ pg_stat_activity' = Executing(t, "ROLLBACK")
    /\ TxnUnchanged
    /\ UNCHANGED <<lock1_acquired, lock2_acquired, conn, cur, raised>>

\* RollbackFail with the close() calls after the try statement instead of in
\* a finally clause: the exception leaves the function at once.
RollbackFailNoFinally(t) ==
    /\ pc[t] = "except"
    /\ err' = [err EXCEPT ![t] = "rollback_err"]
    /\ raised' = [raised EXCEPT ![t] = TRUE]
    /\ pc' = [pc EXCEPT ![t] = "done"]
    /\ hist' = [hist EXCEPT !.caught[t] = err[t]]
    /\ UNCHANGED pg_stat_activity
    /\ TxnUnchanged
    /\ UNCHANGED <<lock1_acquired, lock2_acquired, conn, cur, result, pg_locks>>

\* line 43 (73): conn.rollback() itself raises; the finally clause still runs
RollbackFail(t) ==
    /\ pc[t] = "except"
    /\ err' = [err EXCEPT ![t] = "rollback_err"]
    /\ pc' = [pc EXCEPT ![t] = "finally"]
    /\ hist' = [hist EXCEPT !.caught[t] = err[t]]
    /\ UNCHANGED pg_stat_activity
    /\ TxnUnchanged
    /\ UNCHANGED <<lock1_acquired, lock2_acquired, conn, cur, result, raised,
                   pg_locks>>

\* lines 44-46 (74-76): finally: cur.close(); conn.close().  Closing the
\* connection ends its transaction in the engine.  An exception still in
\* flight then leaves the function and ends the thread.
Finally(t) ==
    /\ pc[t] = "finally"
    /\ cur' = [cur EXCEPT ![t] = "closed"]
    /\ conn' = [conn EXCEPT ![t] = "closed"]
    /\ pg_locks' = Release(t)
    /\ raised' = [raised EXCEPT ![t] = err[t] # "none"]
    /\ pc' = [pc EXCEPT ![t] = "done"]
    /\ hist' = Note(hist)
    /\ pg_stat_activity' = Closed(t)
    /\ TxnUnchanged
    /\ UNCHANGED <<lock1_acquired, lock2_acquired, err, result>>

(* ----------------- the engine, seen from the scripts ------------------- *)
Blocked(t) == pc[t] \in {"first_wait", "second_wait"}
WaitedRow(t) == IF pc[t] = "first_wait" THEN FirstRow(t) ELSE SecondRow(t)

\* A blocked FOR UPDATE returns once the row is free (lines 27/37, 58/67).
Grant(t) ==
    /\ Blocked(t)
    /\ ~HeldByOther(t, WaitedRow(t))
    /\ pg_locks' = (pg_locks \ {LockRow(t, WaitedRow(t), FALSE)})
                       \cup {LockRow(t, WaitedRow(t), TRUE)}
    /\ pc' = [pc EXCEPT ![t] = IF pc[t] = "first_wait" THEN "set" ELSE "commit"]
    /\ hist' = Note(IF pc[t] = "first_wait"
                      THEN [hist EXCEPT !.got1[t] = TRUE]
                      ELSE [hist EXCEPT !.got2[t] = TRUE,
                                        !.early = hist.early \/ hist.victims = {}])
    /\ UNCHANGED pg_stat_activity
    /\ TxnUnchanged
    /\ UNCHANGED <<lock1_acquired, lock2_acquired, conn, cur, err, result, raised>>

\* t waits for a row u holds while u waits for a row t holds.
InCycle(t) ==
    /\ Blocked(t)
    /\ \E u \in Txns \ {t} :
          /\ Blocked(u)
          /\ Holds(u, WaitedRow(t))
          /\ Holds(t, WaitedRow(u))

\* The engine's deadlock detector aborts one transaction of a cycle: its
\* blocked execute (line 37/67) raises the deadlock error and the engine
\* drops the transaction's locks.
DeadlockAbort(t) ==
    /\ InCycle(t)
    /\ pg_locks' = Release(t)
    /\ err' = [err EXCEPT ![t] = "deadlock"]
    /\ pc' = [pc EXCEPT ![t] = "except"]
    /\ hist' = Note([hist EXCEPT !.victims = hist.victims \cup {t}])
    /\ UNCHANGED pg_stat_activity
    /\ TxnUnchanged
    /\ UNCHANGED <<lock1_acquired, lock2_acquired, conn, cur, result, raised>>

\* Any execute or commit of the try body (lines 24-39) raises a psycopg2.Error
\* that is not the deadlock error; the engine aborts the transaction.
StmtError(t) ==
    /\ pc[t] \in {"set_timeout", "lock_first", "first_wait", "lock_second",
                  "second_wait", "commit"}
    /\ pg_locks' = Release(t)
    /\ err' = [err EXCEPT ![t] = "dberr"]
    /\ pc' = [pc EXCEPT ![t] = "except"]
    /\ hist' = Note(hist)
    /\ UNCHANGED pg_stat_activity
    /\ TxnUnchanged
    /\ UNCHANGED <<lock1_acquired, lock2_acquired, conn, cur, result, raised>>

\* An exception that is no psycopg2.Error leaves the try body (lines 24-39):
\* the except clause does not match, the finally clause runs.  A thread
\* blocked in Event.wait() (line 31 / 62) is not among them: wait() without
\* a timeout returns only when the event is set, and nothing interrupts a
\* worker thread.
OtherException(t) ==
    /\ pc[t] \in {"set_timeout", "lock_first", "set", "sleep",
                  "lock_second", "commit"}
    /\ err' = [err EXCEPT ![t] = "exc"]
    /\ pc' = [pc EXCEPT ![t] = "finally"]
    /\ UNCHANGED pg_stat_activity
    /\ TxnUnchanged
    /\ UNCHANGED <<lock1_acquired, lock2_acquired, conn, cur, result, raised,
                   pg_locks, hist>>

(* --------------------------- specifications --------------------------- *)
Main ==
    \/ BeginRound \/ Clear1 \/ Clear2 \/ Start1 \/ Start2
    \/ Join1 \/ Join2 \/ EndRound

Script(t) ==
    \/ Connect(t) \/ SetTimeout(t) \/ LockFirst(t) \/ SetEvent(t)
    \/ WaitEvent(t) \/ Sleep(t) \/ LockSecond(t) \/ Commit(t)
    \/ ExceptRollback(t) \/ Finally(t)

Engine(t) == Grant(t) \/ DeadlockAbort(t)

Fault(t) ==
    \/ ConnectFail(t) \/ StmtError(t) \/ OtherException(t) \/ RollbackFail(t)

\* The trigger against an engine whose only error is the deadlock abort.
NextLive == Main \/ \E t \in Txns : Script(t) \/ Engine(t)

\* The trigger against an engine that may also fail any statement.
Next == NextLive \/ \E t \in Txns : Fault(t)

Spec == Init /\ [][Next]_vars

SpecLive == Init /\ [][NextLive]_vars

\* The same, with every thread scheduled: the main thread and the two
\* script threads each take their next step when they have one, and the
\* engine answers a blocked statement that it can answer (a grant, or the
\* deadlock abort once deadlock_timeout has passed).
SpecLiveFair ==
    /\ Init /\ [][NextLive]_vars
    /\ WF_vars(Main)
    /\ \A t \in Txns : WF_vars(Script(t)) /\ WF_vars(Engine(t))

(* ======================== the wait-for detector ======================== *)
\* IsNotDistinctFrom with a null taken as a wildcard.
NullMatchesAny(a, b) == a = b \/ a = NULL \/ b = NULL

\* IS NOT DISTINCT FROM: equal, or both null (db_connection.py lines 142-150)
IsNotDistinctFrom(a, b) == a = b

\* SQL "=": never true of a null (line 141)
SqlEq(a, b) == a # NULL /\ b # NULL /\ a = b

\* SameResource with the comparison of the relation column left out.
SameLockTypeOnly(bl, kl) ==
    /\ SqlEq(bl.res.locktype, kl.res.locktype)
    /\ IsNotDistinctFrom(bl.res.database, kl.res.database)

\* the ON clause of the self-join of pg_locks, lines 141-150
SameResource(bl, kl) ==
    /\ SqlEq(bl.res.locktype, kl.res.locktype)
    /\ IsNotDistinctFrom(bl.res.database, kl.res.database)
    /\ IsNotDistinctFrom(bl.res.relation, kl.res.relation)
    /\ IsNotDistinctFrom(bl.res.page, kl.res.page)
    /\ IsNotDistinctFrom(bl.res.tuple, kl.res.tuple)
    /\ IsNotDistinctFrom(bl.res.virtualxid, kl.res.virtualxid)
    /\ IsNotDistinctFrom(bl.res.transactionid, kl.res.transactionid)
    /\ IsNotDistinctFrom(bl.res.classid, kl.res.classid)
    /\ IsNotDistinctFrom(bl.res.objid, kl.res.objid)
    /\ IsNotDistinctFrom(bl.res.objsubid, kl.res.objsubid)

\* NotSelf with the comparison left out.
AnyPid(bl, kl) == TRUE

\* line 151: blocked_locks.pid != blocking_locks.pid (the pid of a session's
\* lock row is not null)
NotSelf(bl, kl) == bl.pid # kl.pid

\* UngrantedGranted with the test of blocked_locks.granted left out.
GrantedOnly(bl, kl) == kl.granted

\* lines 153-154: WHERE NOT blocked_locks.granted AND blocking_locks.granted
UngrantedGranted(bl, kl) == ~bl.granted /\ kl.granted

\* The rows of the three joins, lines 138-154: blocked session, its lock
\* row, the lock row it is paired with, the session owning that one.
JoinRows(activity, locks) ==
    {j \in activity \X locks \X locks \X activity :
        /\ j[1].pid = j[2].pid
        /\ SameResource(j[2], j[3])
        /\ NotSelf(j[2], j[3])
        /\ j[4].pid = j[3].pid
        /\ UngrantedGranted(j[2], j[3])}

\* The select list, lines 131-137.  elapsed[p] is NOW() - query_start of
\* session p; convert_decimals keeps the value.
Edge(j, elapsed) ==
    [blocked_pid    |-> j[1].pid,
     blocked_user   |-> j[1].usename,
     blocked_query  |-> j[1].query,
     blocking_pid   |-> j[4].pid,
     blocking_user  |-> j[4].usename,
     blocking_query |-> j[4].query,
     wait_time_ms   |-> elapsed[j[1].pid],
     via            |-> <<j[2], j[3]>>]   \* the two lock rows (not a column)

\* The orders in which a statement may return the rows of J.
Orders(J) ==
    {o \in [1 .. Cardinality(J) -> J] :
        \A i, k \in DOMAIN o : i # k => o[i] # o[k]}

\* Returned for a statement ending in LIMIT 1.
ReturnedFirstOnly(J, elapsed) ==
    IF J = {} THEN {<<>>} ELSE {<<j>> : j \in J}

\* The statement has no ORDER BY: the engine may return the rows in any order.
Returned(J, elapsed) == Orders(J)

\* The values NOW() - query_start takes, in thousandths of the millisecond
\* that wait_time_ms is given in.
WaitVals == {0, 5, 12}

\* the rows whose wait lies halfway between two hundredths
Ties(deadlocks) ==
    {i \in 1 .. Len(deadlocks) : deadlocks[i].wait_time_ms % 10 = 5}

\* round(x, 2) of server.py line 165, on a wait in thousandths of a
\* millisecond: the nearest hundredth, in thousandths.  up decides a tie,
\* which the binary value of the float decides in Python; Report is given
\* the set of the rows whose tie goes up.
Round2(x, up) ==
    LET r == x % 10
    IN  IF r < 5 \/ (r = 5 /\ ~up) THEN x - r ELSE x - r + 10

\* Transaction with the two sessions exchanged.
TransactionSwapped(d, up) ==
    [blocked_session  |-> d.blocking_pid,
     blocked_query    |-> d.blocked_query,
     blocking_session |-> d.blocked_pid,
     blocking_query   |-> d.blocking_query,
     wait_time_ms     |-> Round2(d.wait_time_ms, up)]

\* server.py lines 160-166: one entry of "transactions"
Transaction(d, up) ==
    [blocked_session  |-> d.blocked_pid,
     blocked_query    |-> d.blocked_query,
     blocking_session |-> d.blocking_pid,
     blocking_query   |-> d.blocking_query,
     wait_time_ms     |-> Round2(d.wait_time_ms, up)]

\* server.py lines 152-178: the envelope built from the detector's rows
Report(deadlocks, up) ==
    IF deadlocks # <<>>
       THEN [success |-> TRUE,
             input |-> "check",
             deadlocks_detected |-> TRUE,
             status |-> "ACTIVE DEADLOCK DETECTED",
             deadlock_count |-> Len(deadlocks),
             transactions |-> [i \in 1 .. Len(deadlocks) |->
                                  Transaction(deadlocks[i], i \in up)],
             recommendation |->
               "Review blocking queries and consider terminating long-running transactions"]
       ELSE [success |-> TRUE,
             input |-> "check",
             deadlocks_detected |-> FALSE,
             status |-> "NO ACTIVE DEADLOCK",
             message |-> "No deadlocks or blocking sessions detected"]

\* ErrorReport with a deadlocks_detected field added.
ErrorReportWithPayload(e) ==
    [success |-> FALSE, error |-> e, deadlocks_detected |-> FALSE]

\* server.py lines 180-182
ErrorReport(e) == [success |-> FALSE, error |-> e]

(* ---------------- the try / except of a tool operation ----------------- *)
\* How the body of a tool's try block ends: it returns an envelope, or an
\* exception of some kind leaves it (connection: psycopg2.connect raised;
\* query: cur.execute or cur.fetchall raised; missing_field: KeyError on a
\* result row).
Returns(env) == [raised |-> FALSE, failure |-> "none", envelope |-> env]
Raises(kind, e) == [raised |-> TRUE, failure |-> kind, error |-> e]

\* ExceptException catching psycopg2's errors only.
ExceptDatabaseError(out) ==
    IF out.raised /\ out.failure # "missing_field"
       THEN [raised |-> FALSE, failure |-> out.failure,
             envelope |-> ErrorReport(out.error)]
       ELSE out

\* except Exception as e: return {"success": False, "error": str(e)}
\* (server.py lines 132-134, 180-182, 231-233, 329-331, 425-427)
ExceptException(out) ==
    IF out.raised
       THEN [raised |-> FALSE, failure |-> out.failure,
             envelope |-> ErrorReport(out.error)]
       ELSE out

\* what the caller of tool operation name sees of the outcome out
Outcome(name, out) ==
    /\ tool' = [name |-> name, failure |-> out.failure, raised |-> out.raised]
    /\ envelope' = IF out.raised THEN envelope ELSE out.envelope

\* the engine's session of the agent's connection
AgentPid == 0
AgentSession == Session(AgentPid, "check_deadlocks")

\* the session table once psycopg2.connect has returned (db_connection.py
\* lines 50-57): the agent's session is in it, once
Connected(activity) == {a \in activity : a.pid # AgentPid} \cup {AgentSession}

\* the lock on its own virtual transaction id that a session holds from its
\* first statement to the end of the transaction
VirtualXid ==
    [locktype |-> "virtualxid", database |-> NULL, relation |-> NULL,
     page |-> NULL, tuple |-> NULL, virtualxid |-> "0/1", transactionid |-> NULL,
     classid |-> NULL, objid |-> NULL, objsubid |-> NULL]

\* the lock table while the agent's statement runs (cur.execute, line 158)
Statement(locks) == locks \cup {LockRow(AgentPid, VirtualXid, TRUE)}

\* EndTransaction with neither commit nor rollback sent.
TransactionLeftOpen(locks) == locks

\* cursor() ends the transaction, by commit (line 80) or by rollback
\* (line 82): the engine releases the locks of the agent's session
EndTransaction(locks) == {l \in locks : l.pid # AgentPid}

AgentUnchanged == UNCHANGED triggerVars

\* DatabaseAgent.check_deadlock, server.py lines 146-178, when nothing
\* raises: get_db_connection creates and connects the singleton if there is
\* none, cursor() connects if _connection is None, the query runs, the
\* context manager commits, and the envelope is built.
CheckDeadlock ==
    /\ ncalls < MaxCalls
    /\ \E J \in {JoinRows(Connected(pg_stat_activity), Statement(pg_locks))} :
       \E elapsed \in [{j[1].pid : j \in J} -> WaitVals] :
       \E o \in Returned(J, elapsed) :
       \E deadlocks \in {[i \in DOMAIN o |-> Edge(o[i], elapsed)]} :
       \E up \in SUBSET Ties(deadlocks) :
          /\ call' = [raised |-> FALSE, rows |-> deadlocks]
          /\ Outcome("check_deadlock",
                     ExceptException(Returns(Report(deadlocks, up))))
    /\ db_connection' = "DatabaseConnection"
    /\ connection' = "open"
    /\ pg_stat_activity' = Connected(pg_stat_activity)
    /\ pg_locks' = EndTransaction(Statement(pg_locks))
    /\ ncalls' = ncalls + 1
    /\ UNCHANGED <<callerVars, ops>>
    /\ AgentUnchanged

\* psycopg2.connect raises (db_connection.py lines 49-61), in
\* get_db_connection (line 188) or in cursor() (line 74): the singleton
\* stays registered without a connection, check_deadlock returns the error.
CheckDeadlockConnectFails ==
    /\ ncalls < MaxCalls
    /\ connection = "None"
    /\ db_connection' = "DatabaseConnection"
    /\ connection' = "None"
    /\ call' = [raised |-> TRUE, rows |-> <<>>]
    /\ Outcome("check_deadlock",
               ExceptException(Raises("connection", "connection failed")))
    /\ UNCHANGED <<callerVars, ops>>
    /\ ncalls' = ncalls + 1
    /\ UNCHANGED <<pg_locks, pg_stat_activity>>
    /\ AgentUnchanged

\* cur.execute raises (db_connection.py line 158): cursor() rolls back and
\* re-raises (lines 81-84), check_deadlock returns the error.
CheckDeadlockQueryFails ==
    /\ ncalls < MaxCalls
    /\ db_connection' = "DatabaseConnection"
    /\ connection' = "open"
    /\ call' = [raised |-> TRUE, rows |-> <<>>]
    /\ Outcome("check_deadlock",
               ExceptException(Raises("query", "query failed")))
    /\ UNCHANGED <<callerVars, ops>>
    /\ pg_stat_activity' = Connected(pg_stat_activity)
    /\ pg_locks' = EndTransaction(Statement(pg_locks))
    /\ ncalls' = ncalls + 1
    /\ AgentUnchanged

(* -------------- lock tables and session tables to detect in ------------ *)
\* three sessions: a holder, a waiter and a third party
DetPids == {1, 2, 3}

RelationLock(rel) ==
    [locktype |-> "relation", database |-> "testdb", relation |-> rel,
     page |-> NULL, tuple |-> NULL, virtualxid |-> NULL, transactionid |-> NULL,
     classid |-> NULL, objid |-> NULL, objsubid |-> NULL]

DetResources == {RowLock("orders"), RowLock("inventory"), RelationLock("orders")}

DetLockRows == {LockRow(p, r, g) : p \in DetPids, r \in DetResources, g \in BOOLEAN}

\* What the engine's lock manager keeps true of its table: a row lock has
\* one holder, and a session waits for one lock at a time.
WellFormed(locks) ==
    /\ \A a, b \in locks :
          (a.granted /\ b.granted /\ a.res = b.res /\ a.res.locktype = "tuple")
             => a.pid = b.pid
    /\ \A a, b \in locks :
          (~a.granted /\ ~b.granted /\ a.pid = b.pid) => a = b

RECURSIVE TablesOf(_)
TablesOf(n) ==
    IF n = 0 THEN {{}}
    ELSE LET smaller == TablesOf(n - 1)
         IN  smaller \cup {T \cup {l} : T \in smaller, l \in DetLockRows}

LockTables == {T \in TablesOf(MaxLocks) : WellFormed(T)}

DetQuery(p) == IF p = 1 THEN "SELECT * FROM orders WHERE order_id = 1 FOR UPDATE"
               ELSE IF p = 2 THEN "SELECT * FROM inventory WHERE product_id = 1 FOR UPDATE"
               ELSE "LOCK TABLE orders"

\* Any well-formed lock table of at most MaxLocks rows, every session in the
\* session table; the trigger is not running.
InitDetector ==
    /\ round = 1
    /\ mpc = "stop"
    /\ lock1_acquired = FALSE
    /\ lock2_acquired = FALSE
    /\ pc = [t \in Txns |-> "idle"]
    /\ conn = [t \in Txns |-> "none"]
    /\ cur = [t \in Txns |-> "none"]
    /\ err = [t \in Txns |-> "none"]
    /\ result = [t \in Txns |-> "none"]
    /\ raised = [t \in Txns |-> FALSE]
    /\ pg_locks \in LockTables
    /\ pg_stat_activity = {Session(p, DetQuery(p)) : p \in DetPids}
    /\ db_connection = "None"
    /\ connection = "None"
    /\ call = NoCall
    /\ envelope = NoEnvelope
    /\ ncalls = 0
    /\ tool = NoTool
    /\ CallersIdle
    /\ hist = NoHist
    /\ log = <<>>

NextDetector ==
    \/ CheckDeadlock
    \/ CheckDeadlockConnectFails
    \/ CheckDeadlockQueryFails

SpecDetector == InitDetector /\ [][NextDetector]_vars

\* The trigger and the agent are two processes on one engine: between any
\* two steps of a round check_deadlock may be called, against the lock and
\* session tables as the round has left them.
NextObserved == NextLive \/ NextDetector

SpecObserved == Init /\ [][NextObserved]_vars

(* ---------- pairs of lock rows to compare resource descriptors on ------ *)
\* the columns of pg_locks compared with IS NOT DISTINCT FROM, lines 142-150
DescriptorFields ==
    {"database", "relation", "page", "tuple", "virtualxid", "transactionid",
     "classid", "objid", "objsubid"}

\* A descriptor the engine shows, or one with one column changed: made
\* null, or given another value.
Descriptors ==
    LET base == {RowLock("orders"), RelationLock("orders")}
    IN  base \cup {[d EXCEPT ![f] = v] :
                      d \in base, f \in DescriptorFields, v \in {NULL, "7"}}

\* Session 1 waits for a lock, session 2 holds one; check_deadlocks pairs
\* the two rows when its ON clause takes them for the same resource.
InitResource ==
    /\ round = 1
    /\ mpc = "stop"
    /\ lock1_acquired = FALSE
    /\ lock2_acquired = FALSE
    /\ pc = [t \in Txns |-> "idle"]
    /\ conn = [t \in Txns |-> "none"]
    /\ cur = [t \in Txns |-> "none"]
    /\ err = [t \in Txns |-> "none"]
    /\ result = [t \in Txns |-> "none"]
    /\ raised = [t \in Txns |-> FALSE]
    /\ \E d1, d2 \in Descriptors :
          pg_locks = {LockRow(1, d1, FALSE), LockRow(2, d2, TRUE)}
    /\ pg_stat_activity = {Session(p, DetQuery(p)) : p \in DetPids}
    /\ db_connection = "None"
    /\ connection = "None"
    /\ call = NoCall
    /\ envelope = NoEnvelope
    /\ ncalls = 0
    /\ tool = NoTool
    /\ CallersIdle
    /\ hist = NoHist
    /\ log = <<>>

SpecResource == InitResource /\ [][NextDetector]_vars

(* ===================== the other tool operations ====================== *)
\* get_db_connection (db_connection.py lines 183-189) and the cursor()
\* blocks of a call, with the connection made or at hand: each block has
\* ended its transaction when the call returns
ToolConnected ==
    /\ db_connection' = "DatabaseConnection"
    /\ connection' = "open"
    /\ pg_stat_activity' = Connected(pg_stat_activity)
    /\ pg_locks' = EndTransaction(Statement(pg_locks))

\* psycopg2.connect raises in get_db_connection (line 188) or cursor()
\* (line 74)
ToolNotConnected ==
    /\ connection = "None"
    /\ db_connection' = "DatabaseConnection"
    /\ connection' = "None"
    /\ UNCHANGED <<pg_locks, pg_stat_activity>>

ToolFrame ==
    /\ ncalls' = ncalls + 1
    /\ UNCHANGED <<call, callerVars, ops>>
    /\ AgentUnchanged

\* round(100 * num / den, 2) in hundredths; the values used are not halfway
\* between two hundredths
Percent2(num, den) == (2 * 10000 * num + den) \div (2 * den)

(* ---------------------------- check_file_size -------------------------- *)
max_size_mb == 2048
growth_rate_mb == 15

\* the size_mb values of v_database_stats looked at
SizesMb == {100, 1536, 1843, 1844, 2100}

\* What get_database_size returns (db_connection.py lines 119-125): the
\* row of v_database_stats, a row without one of the columns read, or {}
\* when the view has no row.
SizeInfos ==
    {[database_name |-> "testdb", size_mb |-> m, size_gb |-> m \div 1024] :
        m \in SizesMb}
    \cup {[database_name |-> "testdb", size_gb |-> 1],
          [size_mb |-> 1536, size_gb |-> 1],
          <<>>}

\* server.py lines 57-68; usage_percent in hundredths
GetSizeRecommendations(usage_percent, days_until_full) ==
    LET r1 == IF usage_percent > 7000
                 THEN <<"Archive old data to reduce database size">> ELSE <<>>
        r2 == IF days_until_full < 60
                 THEN <<"Consider increasing storage allocation">> ELSE <<>>
        r3 == IF usage_percent > 8000
                 THEN <<"Implement data retention policies">> ELSE <<>>
        r  == r1 \o r2 \o r3
    IN  IF r = <<>> THEN <<"Monitor growth trends">> ELSE r

\* int(x / growth_rate_mb): the quotient cut towards zero (line 214)
IntQuotient(x, d) == IF x >= 0 THEN x \div d ELSE 0 - ((0 - x) \div d)

\* server.py lines 199-229, after get_database_size has returned size_info
FileSizeBody(size_info) ==
    IF "size_mb" \notin DOMAIN size_info
       THEN Raises("missing_field", "'size_mb'")
    ELSE IF "database_name" \notin DOMAIN size_info
       THEN Raises("missing_field", "'database_name'")
    ELSE
       LET size_mb == size_info.size_mb
           usage_percent == Percent2(size_mb, max_size_mb)
           status == IF usage_percent >= 9000 THEN "CRITICAL"
                     ELSE IF usage_percent >= 7500 THEN "WARNING"
                     ELSE "NORMAL"
           estimated_days == IntQuotient(max_size_mb - size_mb, growth_rate_mb)
       IN  Returns([success |-> TRUE,
                    input |-> "check",
                    database |-> size_info.database_name,
                    current_size_mb |-> size_mb,
                    current_size_gb |-> size_info.size_gb,
                    max_size_mb |-> max_size_mb,
                    usage_percent |-> usage_percent,
                    growth_rate_mb_per_day |-> growth_rate_mb,
                    estimated_days_until_full |-> estimated_days,
                    status |-> status,
                    recommendations |->
                        GetSizeRecommendations(usage_percent, estimated_days)])

\* DatabaseAgent.check_file_size, lines 194-233, called by the tool of
\* lines 468-477
CheckFileSize ==
    /\ ncalls < MaxCalls
    /\ \/ /\ ToolNotConnected
          /\ Outcome("check_file_size",
                     ExceptException(Raises("connection", "connection failed")))
       \/ /\ ToolConnected
          /\ \E out \in {Raises("query", "query failed")}
                        \cup {FileSizeBody(i) : i \in SizeInfos} :
                Outcome("check_file_size", ExceptException(out))
    /\ ToolFrame

(* -------------------------- check_abnormal_data ------------------------ *)
\* the values of the tables argument looked at
TablesArgs == {"all", "Orders", "inventory", "transactions", "customers"}

\* tables.lower(), line 249
Lower(tables) == IF tables = "Orders" THEN "orders" ELSE tables

\* the three checks in the order of lines 252-303, with the values of
\* tables_lower that run each
Checks == <<"orders", "inventory", "transaction_log">>
RunsFor(check) ==
    IF check = "orders" THEN {"all", "orders"}
    ELSE IF check = "inventory" THEN {"all", "inventory"}
    ELSE {"all", "transactions", "transaction_log"}

AnomalyType(check) ==
    IF check = "orders" THEN "Negative order amounts detected"
    ELSE IF check = "inventory" THEN "Stock count exceeds maximum threshold"
    ELSE "Large negative transactions detected"

Severity(check) == IF check = "inventory" THEN "MEDIUM" ELSE "HIGH"

Min(a, b) == IF a < b THEN a ELSE b

\* lines 261-267, 279-285, 297-303: the entry of a check that found n rows;
\* sample_records is the number of rows of rows[:3]
Anomaly(check, n) ==
    [table |-> check, anomaly_type |-> AnomalyType(check),
     severity |-> Severity(check), affected_count |-> n,
     sample_records |-> Min(n, 3)]

\* the anomalies list after the first k checks; found[i] is the number of
\* rows the query of check i returns
RECURSIVE Anomalies(_, _, _)
Anomalies(tables_lower, found, k) ==
    IF k = 0 THEN <<>>
    ELSE LET before == Anomalies(tables_lower, found, k - 1)
         IN  IF tables_lower \in RunsFor(Checks[k]) /\ found[k] > 0
                THEN Append(before, Anomaly(Checks[k], found[k]))
                ELSE before

RECURSIVE SumAffected(_)
SumAffected(anomalies) ==
    IF anomalies = <<>> THEN 0
    ELSE anomalies[1].affected_count + SumAffected(Tail(anomalies))

\* server.py lines 246-326; failing is the check whose query raises, 0 if
\* none does
AbnormalDataBody(tables, found, failing) ==
    IF failing # 0 /\ Lower(tables) \in RunsFor(Checks[failing])
       THEN Raises("query", "query failed")
    ELSE
       LET anomalies == Anomalies(Lower(tables), found, Len(Checks))
       IN  IF anomalies # <<>>
              THEN Returns([success |-> TRUE,
                            tables_checked |-> tables,
                            has_abnormal_data |-> TRUE,
                            status |-> "ABNORMAL DATA DETECTED",
                            anomaly_count |-> Len(anomalies),
                            total_affected_rows |-> SumAffected(anomalies),
                            anomalies |-> anomalies,
                            recommendations |->
                               <<"Review data validation rules",
                                 "Investigate data entry processes",
                                 "Consider implementing CHECK constraints">>])
              ELSE Returns([success |-> TRUE,
                            tables_checked |-> tables,
                            has_abnormal_data |-> FALSE,
                            status |-> "NORMAL",
                            message |-> "No data anomalies detected"])

\* DatabaseAgent.check_abnormal_data, lines 235-331, called by the tool of
\* lines 480-493
CheckAbnormalData ==
    /\ ncalls < MaxCalls
    /\ \/ /\ ToolNotConnected
          /\ Outcome("check_abnormal_data",
                     ExceptException(Raises("connection", "connection failed")))
       \/ /\ ToolConnected
          /\ \E tables \in TablesArgs :
             \E found \in [DOMAIN Checks -> {0, 4}] :
             \E failing \in {0} \cup DOMAIN Checks :
                Outcome("check_abnormal_data",
                        ExceptException(AbnormalDataBody(tables, found, failing)))
    /\ ToolFrame

(* ---------------------------- check_batch_data ------------------------- *)
\* Rows of batch_jobs with failed_records > 0 (the columns the code reads,
\* lines 368, 394-395) and rows of the error breakdown (lines 371-380).
Batch1 == [batch_id |-> "b1", processed_records |-> 90, failed_records |-> 10]
Batch2 == [batch_id |-> "b2", processed_records |-> 0, failed_records |-> 5]
BatchLists == {<<>>, <<Batch1>>, <<Batch2>>, <<Batch1, Batch2>>}

ErrorRows ==
    {[batch_id |-> "b1", error_type |-> "timeout", error_count |-> 7],
     [batch_id |-> "b1", error_type |-> "validation", error_count |-> 3],
     [batch_id |-> "b2", error_type |-> "timeout", error_count |-> 5]}

\* lines 383-392: failure_reasons_map.get(batch_id, {})
FailureReasons(error_breakdown, bid) ==
    LET mine == {e \in error_breakdown : e.batch_id = bid}
    IN  [t \in {e.error_type : e \in mine} |->
            (CHOOSE e \in mine : e.error_type = t).error_count]

RECURSIVE SumField(_, _)
SumField(rows, field) ==
    IF rows = <<>> THEN 0 ELSE rows[1][field] + SumField(Tail(rows), field)

\* server.py lines 366-423, after the first query has returned
\* batch_issues; error_breakdown is what the second query returns, and
\* second_fails says that it raises
BatchDataBody(hours, limit, batch_issues, error_breakdown, second_fails) ==
    IF batch_issues # <<>>
       THEN IF second_fails THEN Raises("query", "query failed")
            ELSE
            LET details == [i \in DOMAIN batch_issues |->
                              [batch_id |-> batch_issues[i].batch_id,
                               processed_records |-> batch_issues[i].processed_records,
                               failed_records |-> batch_issues[i].failed_records,
                               failure_reasons |->
                                  FailureReasons(error_breakdown,
                                                 batch_issues[i].batch_id)]]
                total_processed == SumField(batch_issues, "processed_records")
                total_failed == SumField(batch_issues, "failed_records")
                failure_rate == IF total_processed > 0
                                   THEN Percent2(total_failed, total_processed)
                                   ELSE 0
            IN  Returns([success |-> TRUE,
                         time_window_hours |-> hours,
                         limit |-> limit,
                         has_abnormal_data |-> TRUE,
                         status |-> "BATCH ISSUES DETECTED",
                         total_batches_analyzed |-> Len(batch_issues),
                         total_records_processed |-> total_processed,
                         total_failed_records |-> total_failed,
                         failure_rate_percent |-> failure_rate,
                         batch_details |-> details,
                         recommendations |->
                            <<"Review batch processing logs",
                              "Implement retry mechanism for transient failures",
                              "Validate data before batch processing">>])
       ELSE Returns([success |-> TRUE,
                     time_window_hours |-> hours,
                     limit |-> limit,
                     has_abnormal_data |-> FALSE,
                     status |-> "NORMAL",
                     message |-> "No batch failures detected"])

\* DatabaseAgent.check_batch_data, lines 333-427, called by the tool of
\* lines 496-507; the first query returns at most limit rows
CheckBatchData ==
    /\ ncalls < MaxCalls
    /\ \/ /\ ToolNotConnected
          /\ Outcome("check_batch_data",
                     ExceptException(Raises("connection", "connection failed")))
       \/ /\ ToolConnected
          /\ \E hours \in {24} : \E limit \in {1, 5} :
             \/ Outcome("check_batch_data",
                        ExceptException(Raises("query", "query failed")))
             \/ \E batch_issues \in {b \in BatchLists : Len(b) <= limit} :
                \E error_breakdown \in
                      {{e \in ErrorRows : \E i \in DOMAIN batch_issues :
                                             e.batch_id = batch_issues[i].batch_id},
                       {}} :
                \E second_fails \in BOOLEAN :
                   Outcome("check_batch_data",
                           ExceptException(BatchDataBody(hours, limit,
                              batch_issues, error_breakdown, second_fails)))
    /\ ToolFrame

(* ----------------------- check_query_response_time --------------------- *)
\* Times are in thousandths of a millisecond.  Line 82: threshold_ms = 1000.0
threshold_ms == 1000000

\* the values of the query argument looked at
Queries ==
    {"SELECT * FROM orders WHERE category LIKE 'a%'", "select 1",
     "UPDATE inventory SET current_stock = 0", "check"}

\* the words tested for with "in" (lines 47-54, 87) that a query contains
Keywords(query) ==
    IF query = "SELECT * FROM orders WHERE category LIKE 'a%'"
       THEN {"select", "where", "category", "*", "like"}
    ELSE IF query = "select 1" THEN {"select"}
    ELSE IF query = "UPDATE inventory SET current_stock = 0" THEN {"update"}
    ELSE {}

\* server.py lines 43-55
GetSlowQueryRecommendations(query) ==
    LET r1 == IF {"where", "category"} \subseteq Keywords(query)
                 THEN <<"Add index on category column">> ELSE <<>>
        r2 == IF "join" \in Keywords(query)
                 THEN <<"Review JOIN strategy and indexes">> ELSE <<>>
        r3 == IF "*" \in Keywords(query)
                 THEN <<"Select specific columns instead of *">> ELSE <<>>
        r4 == IF "like" \in Keywords(query)
                 THEN <<"Avoid LIKE operations on large tables">> ELSE <<>>
        r  == r1 \o r2 \o r3 \o r4
    IN  IF r # <<>> THEN r
        ELSE <<"Consider adding appropriate indexes", "Review query execution plan">>

\* line 87
IsSql(input) == Keywords(input) \cap {"select", "update", "delete", "insert"} # {}

\* Lines 88-110: execute_timed_query ran input in execution_time and
\* fetched nrows rows; cur.fetchall() (db_connection.py line 113) raises
\* after a statement that returns no rows; insert_fails says that the
\* INSERT INTO query_stats raises.
TimedQueryBody(input, execution_time, nrows, insert_fails) ==
    IF "select" \notin Keywords(input)
       THEN Raises("query", "no results to fetch")
    ELSE IF insert_fails THEN Raises("query", "query failed")
    ELSE LET is_slow == execution_time > threshold_ms
         IN  Returns([success |-> TRUE,
                      input |-> input,
                      query |-> input,
                      response_time_ms |-> Round2(execution_time, FALSE),
                      rows_returned |-> nrows,
                      is_slow |-> is_slow,
                      status |-> IF is_slow THEN "SLOW" ELSE "NORMAL",
                      threshold_ms |-> threshold_ms,
                      recommendations |->
                         IF is_slow THEN GetSlowQueryRecommendations(input)
                         ELSE <<>>])

\* Lines 111-130: get_slow_queries returned slow_queries, the
\* execution_time_ms of the rows of query_stats above threshold_ms
SlowQueriesBody(input, slow_queries) ==
    IF slow_queries # <<>>
       THEN Returns([success |-> TRUE,
                     input |-> input,
                     slow_queries_found |-> Len(slow_queries),
                     status |-> "SLOW QUERIES DETECTED",
                     queries |-> slow_queries,
                     threshold_ms |-> threshold_ms])
       ELSE Returns([success |-> TRUE,
                     input |-> input,
                     status |-> "NORMAL",
                     message |-> "No slow queries detected"])

\* d[key] = value
SetItem(d, key, value) ==
    [k \in DOMAIN d \cup {key} |-> IF k = key THEN value ELSE d[k]]

\* The tool of lines 434-453 on the envelope the agent returned: a threshold
\* other than the default overrides threshold_ms, is_slow and status.
ThresholdOverride(env, threshold) ==
    IF threshold # threshold_ms /\ env.success
       THEN LET r1 == SetItem(env, "threshold_ms", threshold)
            IN  IF "is_slow" \in DOMAIN r1
                   THEN LET slow == r1.response_time_ms > threshold
                        IN  SetItem(SetItem(r1, "is_slow", slow), "status",
                                    IF slow THEN "SLOW" ELSE "NORMAL")
                   ELSE r1
       ELSE env

\* the tool's return value, from how DatabaseAgent.check_query_response_time
\* ended
QueryTool(out, threshold) ==
    IF out.raised THEN out
    ELSE [out EXCEPT !.envelope = ThresholdOverride(@, threshold)]

\* the tool check_query_response_time, lines 434-453, and
\* DatabaseAgent.check_query_response_time, lines 70-134
CheckQueryResponseTime ==
    /\ ncalls < MaxCalls
    /\ \E threshold \in {threshold_ms, 500000, 2000000} :
       \/ /\ ToolNotConnected
          /\ Outcome("check_query_response_time",
                QueryTool(ExceptException(Raises("connection", "connection failed")),
                          threshold))
       \/ /\ ToolConnected
          /\ \E input \in Queries :
             \E body \in
                  {Raises("query", "query failed")} \cup
                  (IF IsSql(input)
                      THEN {TimedQueryBody(input, t, n, f) :
                               t \in {400000, 1000004, 1700000}, n \in {0, 3},
                               f \in BOOLEAN}
                      ELSE {SlowQueriesBody(input, q) :
                               q \in {<<>>, <<1800000, 1200000>>}}) :
                Outcome("check_query_response_time",
                        QueryTool(ExceptException(body), threshold))
    /\ ToolFrame

(* ------------------------- the five tools ------------------------------ *)
Tools ==
    {"check_query_response_time", "check_deadlock", "check_file_size",
     "check_abnormal_data", "check_batch_data"}

\* lock tables the tools are called on: none, one waiting session, a cycle
ToolLockTables ==
    {{},
     {LockRow(1, RowLock("orders"), TRUE), LockRow(2, RowLock("orders"), FALSE)},
     {LockRow(1, FirstRow(1), TRUE), LockRow(1, SecondRow(1), FALSE),
      LockRow(2, FirstRow(2), TRUE), LockRow(2, SecondRow(2), FALSE)}}

InitTools ==
    /\ round = 1
    /\ mpc = "stop"
    /\ lock1_acquired = FALSE
    /\ lock2_acquired = FALSE
    /\ pc = [t \in Txns |-> "idle"]
    /\ conn = [t \in Txns |-> "none"]
    /\ cur = [t \in Txns |-> "none"]
    /\ err = [t \in Txns |-> "none"]
    /\ result = [t \in Txns |-> "none"]
    /\ raised = [t \in Txns |-> FALSE]
    /\ pg_locks \in ToolLockTables
    /\ pg_stat_activity = {Session(p, DetQuery(p)) : p \in DetPids}
    /\ db_connection = "None"
    /\ connection = "None"
    /\ call = NoCall
    /\ envelope = NoEnvelope
    /\ ncalls = 0
    /\ tool = NoTool
    /\ CallersIdle
    /\ hist = NoHist
    /\ log = <<>>

NextTools ==
    \/ CheckQueryResponseTime
    \/ CheckDeadlock
    \/ CheckDeadlockConnectFails
    \/ CheckDeadlockQueryFails
    \/ CheckFileSize
    \/ CheckAbnormalData
    \/ CheckBatchData

SpecTools == InitTools /\ [][NextTools]_vars

(* ================= connect and disconnect on a handle ================== *)
\* LogAndRaise without the raise of line 61.
LogAndSwallow(out) == [raised |-> FALSE, failure |-> out.failure]

\* db_connection.py lines 59-61: except Exception as e: logger.error; raise
LogAndRaise(out) == out

\* Disconnect with the test of line 65 left out: close() is called on
\* whatever _connection is.
CloseUnguarded(c) ==
    IF c # "None" THEN [raised |-> FALSE, connection |-> "None"]
    ELSE [raised |-> TRUE, connection |-> c]

\* DatabaseConnection.disconnect, lines 63-68, on a handle whose
\* _connection is c
Disconnect(c) ==
    IF c # "None" THEN [raised |-> FALSE, connection |-> "None"]
    ELSE [raised |-> FALSE, connection |-> c]

HandleFrame ==
    UNCHANGED <<triggerVars, pg_locks, db_connection, call, envelope, ncalls,
                tool, callerVars>>

\* the record of one call in ops
Op(name, reachable, before, after, exc) ==
    [op |-> name, reachable |-> reachable, before |-> before, after |-> after,
     raised |-> exc]

\* DatabaseConnection.connect, lines 47-58, with the engine reachable:
\* _connection is assigned; a connection it replaces loses its last
\* reference and is closed
HandleConnect ==
    /\ Len(ops) < MaxOps
    /\ connection' = "open"
    /\ pg_stat_activity' = Connected(pg_stat_activity)
    /\ ops' = Append(ops, Op("connect", TRUE, connection, "open", FALSE))
    /\ HandleFrame

\* DatabaseConnection.connect with the engine unreachable: psycopg2.connect
\* raises after connect_timeout, the assignment of line 50 does not happen
HandleConnectFails ==
    /\ Len(ops) < MaxOps
    /\ \E out \in {LogAndRaise(Raises("connection", "connection failed"))} :
          ops' = Append(ops, Op("connect", FALSE, connection, connection,
                                out.raised))
    /\ UNCHANGED <<connection, pg_stat_activity>>
    /\ HandleFrame

\* DatabaseConnection.disconnect, lines 63-68
HandleDisconnect ==
    /\ Len(ops) < MaxOps
    /\ \E out \in {Disconnect(connection)} :
          /\ connection' = out.connection
          /\ ops' = Append(ops, Op("disconnect", TRUE, connection,
                                   out.connection, out.raised))
    /\ pg_stat_activity' =
          IF connection # "None" THEN Closed(AgentPid) ELSE pg_stat_activity
    /\ HandleFrame

\* a DatabaseConnection just constructed (lines 29-45): _connection = None
InitHandle ==
    /\ round = 1
    /\ mpc = "stop"
    /\ lock1_acquired = FALSE
    /\ lock2_acquired = FALSE
    /\ pc = [t \in Txns |-> "idle"]
    /\ conn = [t \in Txns |-> "none"]
    /\ cur = [t \in Txns |-> "none"]
    /\ err = [t \in Txns |-> "none"]
    /\ result = [t \in Txns |-> "none"]
    /\ raised = [t \in Txns |-> FALSE]
    /\ pg_locks = {}
    /\ pg_stat_activity = {}
    /\ db_connection = "DatabaseConnection"
    /\ connection = "None"
    /\ call = NoCall
    /\ envelope = NoEnvelope
    /\ ncalls = 0
    /\ tool = NoTool
    /\ CallersIdle
    /\ hist = NoHist
    /\ log = <<>>

NextHandle == HandleConnect \/ HandleConnectFails \/ HandleDisconnect

SpecHandle == InitHandle /\ [][NextHandle]_vars

(* ============ check_deadlock called by two threads at once ============= *)
\* The steps of DatabaseAgent.check_deadlock (server.py lines 146-182) as a
\* thread takes them through get_db_connection (db_connection.py lines
\* 183-189), cursor() (lines 70-86) and check_deadlocks (lines 157-159).
CallerFrame ==
    UNCHANGED <<triggerVars, pg_locks, pg_stat_activity, connection, call,
                envelope, tool, ops>>

\* the other callers whose cursor is of connection k and whose statement is
\* about to run, or has run in a transaction they have not yet ended
Using(c, k) ==
    {d \in Callers \ {c} :
        caller[d].cur = k /\ caller[d].pc \in {"execute", "commit", "rollback"}}

\* the other callers that have run a statement on connection k and have not
\* yet reached their own commit or rollback
InFlight(c, k) ==
    {d \in Callers \ {c} :
        caller[d].cur = k /\ caller[d].pc \in {"commit", "rollback"}}

Did(kind, c, others) == {[kind |-> kind, by |-> c, of |-> d] : d \in others}

\* server.py line 147: a thread enters check_deadlock
Call(c) ==
    /\ caller[c].pc = "idle"
    /\ caller' = [caller EXCEPT ![c].pc = "get"]
    /\ ncalls' = ncalls + 1
    /\ UNCHANGED <<db_connection, objects, txn, interference>>
    /\ CallerFrame

\* GetDbConnection taking a singleton without a connection for no singleton.
GetDbConnectionUnlessConnected(c) ==
    /\ caller[c].pc = "get"
    /\ caller' = [caller EXCEPT
                    ![c].pc = IF db_connection = "None"
                                 \/ objects[db_connection] = "None"
                              THEN "create" ELSE "return"]
    /\ UNCHANGED <<db_connection, ncalls, objects, txn, interference>>
    /\ CallerFrame

\* db_connection.py line 186: if _db_connection is None
GetDbConnection(c) ==
    /\ caller[c].pc = "get"
    /\ caller' = [caller EXCEPT
                    ![c].pc = IF db_connection = "None" THEN "create" ELSE "return"]
    /\ UNCHANGED <<db_connection, ncalls, objects, txn, interference>>
    /\ CallerFrame

\* line 187: _db_connection = DatabaseConnection()
Create(c) ==
    /\ caller[c].pc = "create"
    /\ db_connection' = Object(c)
    /\ objects' = [objects EXCEPT ![Object(c)] = "None"]
    /\ caller' = [caller EXCEPT ![c].pc = "connect"]
    /\ UNCHANGED <<ncalls, txn, interference>>
    /\ CallerFrame

\* DatabaseConnection.connect, lines 49-58, on object o when
\* psycopg2.connect returns: _connection is assigned, whatever it was
ConnectOn(o, c) ==
    /\ objects' = [objects EXCEPT ![o] = Conn(c)]
    /\ interference' = interference \cup Did("replace", c, Using(c, objects[o]))

\* line 188: _db_connection.connect(), on the object the global names now
ConnectSingleton(c) ==
    /\ caller[c].pc = "connect"
    /\ ConnectOn(db_connection, c)
    /\ caller' = [caller EXCEPT ![c].pc = "return"]
    /\ UNCHANGED <<db_connection, ncalls, txn>>
    /\ CallerFrame

\* line 188 raises (lines 59-61); check_deadlock returns the error envelope
\* (server.py lines 180-182)
ConnectSingletonFails(c) ==
    /\ caller[c].pc = "connect"
    /\ caller' = [caller EXCEPT ![c].pc = "done", ![c].res = "error"]
    /\ UNCHANGED <<db_connection, ncalls, objects, txn, interference>>
    /\ CallerFrame

\* line 189: return _db_connection
Return(c) ==
    /\ caller[c].pc = "return"
    /\ caller' = [caller EXCEPT ![c].db = db_connection, ![c].pc = "cursor"]
    /\ UNCHANGED <<db_connection, ncalls, objects, txn, interference>>
    /\ CallerFrame

\* line 73: if not self._connection
CursorEnter(c) ==
    /\ caller[c].pc = "cursor"
    /\ caller' = [caller EXCEPT
                    ![c].pc = IF objects[caller[c].db] = "None"
                              THEN "connect2" ELSE "open",
                    ![c].use.found = objects[caller[c].db]]
    /\ UNCHANGED <<db_connection, ncalls, objects, txn, interference>>
    /\ CallerFrame

\* line 74: self.connect()
CursorConnect(c) ==
    /\ caller[c].pc = "connect2"
    /\ ConnectOn(caller[c].db, c)
    /\ caller' = [caller EXCEPT ![c].pc = "open", ![c].use.connected = TRUE]
    /\ UNCHANGED <<db_connection, ncalls, txn>>
    /\ CallerFrame

\* line 74 raises, before the try of line 78
CursorConnectFails(c) ==
    /\ caller[c].pc = "connect2"
    /\ caller' = [caller EXCEPT ![c].pc = "done", ![c].res = "error"]
    /\ UNCHANGED <<db_connection, ncalls, objects, txn, interference>>
    /\ CallerFrame

\* line 77: cur = self._connection.cursor(...)
OpenCursor(c) ==
    /\ caller[c].pc = "open"
    /\ caller' = [caller EXCEPT ![c].cur = objects[caller[c].db],
                                ![c].pc = "execute"]
    /\ UNCHANGED <<db_connection, ncalls, objects, txn, interference>>
    /\ CallerFrame

\* line 158, cur.execute(query), and line 159 when the engine runs the
\* statement: psycopg2 begins a transaction on the cursor's connection if
\* none is open
Execute(c) ==
    /\ caller[c].pc = "execute"
    /\ txn[caller[c].cur].state # "aborted"
    /\ txn' = [txn EXCEPT ![caller[c].cur].state = "open"]
    /\ caller' = [caller EXCEPT ![c].pc = "commit", ![c].use.body = "returned"]
    /\ UNCHANGED <<db_connection, ncalls, objects, interference>>
    /\ CallerFrame

\* line 158 raises on the caller's own statement: the engine marks the
\* connection's transaction as failed
ExecuteFails(c) ==
    /\ caller[c].pc = "execute"
    /\ txn[caller[c].cur].state # "aborted"
    /\ txn' = [txn EXCEPT ![caller[c].cur] = [state |-> "aborted", by |-> c]]
    /\ caller' = [caller EXCEPT ![c].pc = "rollback", ![c].exc = TRUE,
                                ![c].use.body = "raised",
                                ![c].use.error = "body"]
    /\ UNCHANGED <<db_connection, ncalls, objects, interference>>
    /\ CallerFrame

\* line 158 raises because the connection's transaction has failed: the
\* engine runs no statement until the transaction is ended
ExecuteInAborted(c) ==
    /\ caller[c].pc = "execute"
    /\ txn[caller[c].cur].state = "aborted"
    /\ interference' = interference \cup
          Did("result", txn[caller[c].cur].by, {c} \ {txn[caller[c].cur].by})
    /\ caller' = [caller EXCEPT ![c].pc = "rollback", ![c].exc = TRUE,
                                ![c].use.body = "raised",
                                ![c].use.error = "body"]
    /\ UNCHANGED <<db_connection, ncalls, objects, txn>>
    /\ CallerFrame

\* self._connection.commit() or .rollback(): ends the transaction of the
\* connection the object has now
EndTxn(c, kind) ==
    \E k \in {objects[caller[c].db]} :
       /\ txn' = [txn EXCEPT ![k] = NoTxn]
       /\ interference' = interference \cup Did(kind, c, InFlight(c, k))

\* CommitTxn with the commit() call left out.
CommitSkipped(c) ==
    /\ caller[c].pc = "commit"
    /\ caller' = [caller EXCEPT ![c].pc = "close"]
    /\ UNCHANGED <<db_connection, ncalls, objects, txn, interference>>
    /\ CallerFrame

\* line 80
CommitTxn(c) ==
    /\ caller[c].pc = "commit"
    /\ EndTxn(c, "commit")
    /\ caller' = [caller EXCEPT ![c].pc = "close",
                                ![c].use.ends = Append(@, "commit")]
    /\ UNCHANGED <<db_connection, ncalls, objects>>
    /\ CallerFrame

\* line 80 raises (the connection was lost): the transaction is not
\* committed, the except clause of line 81 catches the exception
CommitFails(c) ==
    /\ caller[c].pc = "commit"
    /\ caller' = [caller EXCEPT ![c].pc = "rollback", ![c].exc = TRUE,
                                ![c].use.ends = Append(@, "commit raised"),
                                ![c].use.error = "commit"]
    /\ UNCHANGED <<db_connection, ncalls, objects, txn, interference>>
    /\ CallerFrame

\* lines 81-84
RollbackTxn(c) ==
    /\ caller[c].pc = "rollback"
    /\ EndTxn(c, "rollback")
    /\ caller' = [caller EXCEPT ![c].pc = "close",
                                ![c].use.ends = Append(@, "rollback")]
    /\ UNCHANGED <<db_connection, ncalls, objects>>
    /\ CallerFrame

\* line 82 raises: lines 83-84 are not reached, the exception of rollback()
\* leaves the except clause in place of the one it caught; finally runs
RollbackFails(c) ==
    /\ caller[c].pc = "rollback"
    /\ caller' = [caller EXCEPT ![c].pc = "close",
                                ![c].use.ends = Append(@, "rollback raised"),
                                ![c].use.error = "rollback"]
    /\ UNCHANGED <<db_connection, ncalls, objects, txn, interference>>
    /\ CallerFrame

\* line 86, cur.close(), then check_deadlock returns: the envelope of
\* server.py lines 152-178, or the error envelope of lines 180-182
CloseCursor(c) ==
    /\ caller[c].pc = "close"
    /\ caller' = [caller EXCEPT ![c].pc = "done", ![c].cur = "None",
                                ![c].exc = FALSE,
                                ![c].use.closed = TRUE,
                                ![c].res = IF caller[c].exc THEN "error" ELSE "ok"]
    /\ UNCHANGED <<db_connection, ncalls, objects, txn, interference>>
    /\ CallerFrame

\* The process before the two calls: no singleton yet, or the singleton of
\* an earlier call, connected or left without a connection by a connect
\* that failed (lines 187-188).
InitCallers ==
    /\ round = 1
    /\ mpc = "stop"
    /\ lock1_acquired = FALSE
    /\ lock2_acquired = FALSE
    /\ pc = [t \in Txns |-> "idle"]
    /\ conn = [t \in Txns |-> "none"]
    /\ cur = [t \in Txns |-> "none"]
    /\ err = [t \in Txns |-> "none"]
    /\ result = [t \in Txns |-> "none"]
    /\ raised = [t \in Txns |-> FALSE]
    /\ pg_locks = {}
    /\ pg_stat_activity = {}
    /\ connection = "None"
    /\ call = NoCall
    /\ envelope = NoEnvelope
    /\ ncalls = 0
    /\ tool = NoTool
    /\ \/ /\ db_connection = "None"
          /\ objects = [o \in Objects |-> "absent"]
       \/ /\ db_connection = "DatabaseConnection"
          /\ \E k \in {"None", "connection"} :
                objects = [o \in Objects |->
                             IF o = "DatabaseConnection" THEN k ELSE "absent"]
    /\ txn = [k \in Connections |-> NoTxn]
    /\ caller = [c \in Callers |-> NoThread]
    /\ interference = {}
    /\ ops = <<>>
    /\ hist = NoHist
    /\ log = <<>>

CallerStep(c) ==
    \/ Call(c) \/ GetDbConnection(c) \/ Create(c)
    \/ ConnectSingleton(c) \/ ConnectSingletonFails(c) \/ Return(c)
    \/ CursorEnter(c) \/ CursorConnect(c) \/ CursorConnectFails(c)
    \/ OpenCursor(c)
    \/ Execute(c) \/ ExecuteFails(c) \/ ExecuteInAborted(c)
    \/ CommitTxn(c) \/ CommitFails(c) \/ RollbackTxn(c) \/ RollbackFails(c)
    \/ CloseCursor(c)

NextCallers == \E c \in Callers : CallerStep(c)

SpecCallers == InitCallers /\ [][NextCallers]_vars

(* --------------- check_deadlock called again and again ----------------- *)
\* server.py lines 456-465: the call has returned to the tool wrapper and
\* the thread is free for the next call
Again(c) ==
    /\ caller[c].pc = "done"
    /\ ncalls <= MaxCalls
    /\ caller' = [caller EXCEPT ![c] = NoThread]
    /\ UNCHANGED <<db_connection, ncalls, objects, txn, interference>>
    /\ CallerFrame

\* Sequential use: a call is made only when no other call is under way.
NoOtherCall(c) == \A d \in Callers \ {c} : caller[d].pc \in {"idle", "done"}

NextSequential ==
    \E c \in Callers : NoOtherCall(c) /\ (CallerStep(c) \/ Again(c))

SpecSequential == InitCallers /\ [][NextSequential]_vars

(* ======================= claims: the trigger ========================== *)
Ended(t) == pc[t] \in {"idle", "done"}
EventOf(t) == IF t = 1 THEN lock1_acquired ELSE lock2_acquired
\* the main thread is between the two clear() calls and the end of the round
Cleared == mpc \in {"start1", "start2", "join1", "join2", "end"}

\* C1: a script issues its second FOR UPDATE only after both first row locks
\* were acquired in the same round and the peer has set its event, and an
\* event is set only after its owner's first FOR UPDATE has returned.
C1_SecondLockAfterBothFirst ==
    \A t \in Txns :
       /\ hist.req2[t] =>
             /\ hist.got1[1] /\ hist.got1[2]
             /\ hist.set[Other(t)]
       /\ hist.set[t] => hist.got1[t]
       /\ (Cleared /\ EventOf(t)) => hist.got1[t]

C1_Witness == hist.req2[1] /\ hist.req2[2] /\ round = 2

\* the safety part of C2
C2_NoGrantBeforeCycle ==
    /\ ~hist.early
    /\ \A t \in Txns :
          /\ hist.req2[t] => hist.held2[t]
          /\ hist.got2[t] => (hist.cycle /\ hist.victims = {Other(t)})
          /\ (hist.passed[t] /\ pc[t] \in {"commit", "except", "finally", "done"})
                => hist.cycle
          /\ (hist.got1[t] /\ pc[t] \in {"set", "wait", "sleep", "lock_second",
                                         "second_wait"})
                => Holds(t, FirstRow(t))

\* C2: against an engine whose only error is the deadlock abort and with
\* every thread scheduled, once both scripts have passed the barrier the
\* circular wait is reached; every second FOR UPDATE finds the row still
\* held by the peer, none is granted before the circular wait was reached
\* and the peer aborted, and a first row lock is held until then.
C2_CycleAlwaysFormed ==
    /\ []C2_NoGrantBeforeCycle
    /\ (hist.passed[1] /\ hist.passed[2] /\ ~hist.cycle) ~> CircularWait

C2_Witness == CircularWait /\ hist.passed[1] /\ hist.passed[2]

RECURSIVE SumOver(_, _)
SumOver(s, f) ==
    IF s = <<>> THEN 0
    ELSE (IF Head(s).formed THEN Head(s)[f] ELSE 0) + SumOver(Tail(s), f)

FormedRounds == Cardinality({i \in DOMAIN log : log[i].formed})

\* C3: against an engine whose only error is the deadlock abort, every
\* round in which both scripts issued their second FOR UPDATE ends with
\* exactly one rollback and exactly one commit, so K such rounds total K
\* rollbacks and K commits.
C3_OneAbortOneCommit ==
    /\ \A i \in DOMAIN log :
          log[i].formed => (log[i].commits = 1 /\ log[i].rollbacks = 1)
    /\ SumOver(log, "commits") = FormedRounds
    /\ SumOver(log, "rollbacks") = FormedRounds
    /\ mpc = "end" /\ hist.req2[1] /\ hist.req2[2]
          => (Count("committed") = 1 /\ Count("rolledback") = 1)

C3_Witness == Len(log) >= 2 /\ \A i \in DOMAIN log : log[i].formed

\* C4 as stated: whenever a script is about to start, both events are clear
\* and the scripts of the round before have ended.
C4_BothClearAtEveryStart ==
    /\ mpc = "start1" =>
          (~lock1_acquired /\ ~lock2_acquired /\ Ended(1) /\ Ended(2))
    /\ mpc = "start2" =>
          (~lock1_acquired /\ ~lock2_acquired /\ Ended(2))

\* C4 amended: when txn1, the first script of a round, is about to start,
\* both events are clear and both scripts of the round before have ended;
\* when txn2 is about to start its own event is clear and lock1_acquired is
\* set only if txn1 of the same round has set it; an event that is set was
\* set in this round, so no wait() returns on a set() of an earlier round.
C4_NoStaleSignal ==
    /\ mpc = "start1" =>
          (~lock1_acquired /\ ~lock2_acquired /\ Ended(1) /\ Ended(2))
    /\ mpc = "start2" =>
          (~lock2_acquired /\ Ended(2) /\ (lock1_acquired => hist.set[1]))
    /\ \A t \in Txns :
          /\ (Cleared /\ EventOf(t)) => hist.set[t]
          /\ hist.passed[t] => hist.set[Other(t)]

C4_Witness ==
    /\ round = 2
    /\ hist.passed[1] /\ hist.passed[2]
    /\ log[1].rollbacks = 2

\* C5: a script that caught an error other than the deadlock error ends by
\* raising it (or with an outcome of its own), not with the rollback with
\* which it recovers from the deadlock abort.
C5_NonDeadlockErrorSurfaced ==
    \A t \in Txns :
       (pc[t] = "done" /\ hist.caught[t] = "dberr")
          => (raised[t] \/ result[t] # "rolledback")

\* C6: a script that ends after its connection was opened has closed its
\* cursor and its connection, and holds nothing in the engine.
C6_SessionsClosedOnExit ==
    \A t \in Txns :
       pc[t] = "done" =>
          /\ \/ conn[t] = "closed" /\ cur[t] = "closed"
             \/ conn[t] = "none" /\ cur[t] = "none" /\ raised[t]
          /\ \A l \in pg_locks : l.pid # t

C6_Witness ==
    \E t \in Txns :
       /\ pc[t] = "done" /\ err[t] = "rollback_err" /\ raised[t]
       /\ conn[t] = "closed"
       /\ pc[Other(t)] = "done" /\ result[Other(t)] = "committed"

(* ======================= claims: the detector ========================= *)
Ungranted == {l \in pg_locks : ~l.granted}
\* the last check_deadlocks call returned
Returned1 == ncalls >= 1 /\ ~call.raised

\* x is a granted lock and y the only ungranted request, of another session
\* and on the same resource
ContentionPair(x, y) ==
    /\ x \in pg_locks /\ y \in pg_locks
    /\ x.granted /\ ~y.granted
    /\ x.pid # y.pid
    /\ x.res = y.res
    /\ Ungranted = {y}

OneEdge(rows, y, x) ==
    /\ Len(rows) = 1
    /\ rows[1].blocked_pid = y.pid
    /\ rows[1].blocking_pid = x.pid

\* C7 as stated: when X holds a granted lock on R, Y has an ungranted
\* request on R and there is no other ungranted request, check_deadlocks
\* returns exactly one edge, blocked Y, blocking X.
C7_ExactlyOneEdge ==
    Returned1 =>
       \A x, y \in pg_locks : ContentionPair(x, y) => OneEdge(call.rows, y, x)

\* C7 amended: ... and X's is the only granted lock on R held by a session
\* other than Y; then exactly one edge is returned, blocked Y, blocking X.
C7_OneHolderOneEdge ==
    Returned1 =>
       \A x, y \in pg_locks :
          (/\ ContentionPair(x, y)
           /\ \A z \in pg_locks :
                 (z.granted /\ z.res = x.res /\ z.pid # y.pid) => z = x)
             => OneEdge(call.rows, y, x)

C7_Witness ==
    /\ Returned1
    /\ Cardinality(pg_locks) = 3
    /\ \E x, y \in pg_locks :
          /\ ContentionPair(x, y)
          /\ \A z \in pg_locks :
                (z.granted /\ z.res = x.res /\ z.pid # y.pid) => z = x
          /\ OneEdge(call.rows, y, x)

\* C8: for every lock table, no returned edge has blocked_pid equal to
\* blocking_pid, and every returned edge pairs an ungranted lock row of the
\* blocked session with a granted lock row of the blocking session.
C8_EdgesPairUngrantedWithGranted ==
    Returned1 =>
       \A i \in DOMAIN call.rows :
          LET e == call.rows[i] IN
          /\ e.blocked_pid # e.blocking_pid
          /\ e.via[1] \in pg_locks /\ e.via[2] \in pg_locks
          /\ e.via[1].pid = e.blocked_pid /\ ~e.via[1].granted
          /\ e.via[2].pid = e.blocking_pid /\ e.via[2].granted

\* an edge was returned from a table in which its blocked session also holds
\* a granted lock on the resource it waits for
C8_Witness ==
    /\ Returned1
    /\ \E i \in DOMAIN call.rows :
          LockRow(call.rows[i].blocked_pid, call.rows[i].via[1].res, TRUE) \in pg_locks

\* C9: when no session has an ungranted request, check_deadlocks returns no
\* edge, on the first call and on every later call on the same state.
C9_AllClearIsEmpty ==
    (Returned1 /\ Ungranted = {}) => call.rows = <<>>

C9_Witness ==
    /\ ncalls = 2 /\ ~call.raised
    /\ Ungranted = {}
    /\ Cardinality(pg_locks) >= 2
    /\ call.rows = <<>>
    /\ envelope.success /\ ~envelope.deadlocks_detected

Descending(ws) ==
    \A i \in DOMAIN ws : i + 1 \in DOMAIN ws => ws[i].wait_time_ms >= ws[i + 1].wait_time_ms

\* C10: the edges check_deadlocks returns, and the transactions list that
\* check_deadlock builds from them, are in descending order of wait_time_ms.
C10_OrderedByWaitDesc ==
    Returned1 =>
       /\ Descending(call.rows)
       /\ call.rows # <<>> => Descending(envelope.transactions)

(* ------------------- claims: the resource descriptor ------------------- *)
\* the claim's reading of one column: equal in both rows, or null in both
EqualOrBothNull(a, b) ==
    \/ a = NULL /\ b = NULL
    \/ a # NULL /\ b # NULL /\ a = b

Paired(bl, kl) == \E i \in DOMAIN call.rows : call.rows[i].via = <<bl, kl>>

\* C11: the detector takes an ungranted and a granted lock row of two
\* sessions for the same resource exactly when they have the same lock type
\* and each of database, relation, page, tuple, virtualxid, transactionid,
\* classid, objid, objsubid is equal in both or null in both; a column null
\* in one row and not null in the other never matches.
C11_SameResourceIffFieldsMatch ==
    Returned1 =>
       \A bl, kl \in pg_locks :
          (~bl.granted /\ kl.granted /\ bl.pid # kl.pid) =>
             (Paired(bl, kl) <=>
                 /\ bl.res.locktype = kl.res.locktype
                 /\ \A f \in DescriptorFields : EqualOrBothNull(bl.res[f], kl.res[f]))

\* two rows of one lock type whose page is null in one and not in the other
\* were compared, and no edge was returned
C11_Witness ==
    /\ Returned1
    /\ call.rows = <<>>
    /\ \E bl, kl \in pg_locks :
          /\ ~bl.granted /\ kl.granted /\ bl.pid # kl.pid
          /\ bl.res.locktype = kl.res.locktype
          /\ bl.res.page = NULL /\ kl.res.page # NULL
          /\ \A f \in DescriptorFields \ {"page"} : bl.res[f] = kl.res[f]

(* --------------------- claims: the detector's frame -------------------- *)
\* a step that is a check_deadlock call
DetectorCall == ncalls' # ncalls

\* C12 as stated: a detector call leaves the lock table and the session
\* table as they were, whether check_deadlocks returns or fails.
C12_TablesUnchanged ==
    [][DetectorCall =>
          /\ pg_locks' = pg_locks
          /\ pg_stat_activity' = pg_stat_activity]_vars

\* C12 amended: a detector call leaves the lock table and every session
\* other than the detector's own as they were, whether check_deadlocks
\* returns or fails; the only change to the session table is that a call
\* made without a connection may add the detector's own session.
C12_OnlyOwnSessionAdded ==
    [][DetectorCall =>
          /\ pg_locks' = pg_locks
          /\ \/ pg_stat_activity' = pg_stat_activity
             \/ /\ connection = "None"
                /\ AgentSession \notin pg_stat_activity
                /\ pg_stat_activity' = pg_stat_activity \cup {AgentSession}]_vars

\* a call that connected and whose query then failed has been made on a
\* table with a waiting session
C12_Witness ==
    /\ ncalls >= 1 /\ call.raised
    /\ connection = "open"
    /\ AgentSession \in pg_stat_activity
    /\ Ungranted # {}
    /\ \A l \in pg_locks : l.pid # AgentPid

(* -------------------- claims: two callers at once ---------------------- *)
\* C13: in every interleaving of two threads running check_deadlock, no call
\* commits or rolls back a transaction in which the other call's statement
\* is in flight, none replaces a connection the other call's cursor is of,
\* and none fails because of the other call's statement.
C13_NoSharedState == interference = {}

(* ------------------------- claims: the tools --------------------------- *)
Called == tool.name \in Tools

\* C14: none of the five tool operations raises to its caller; after a
\* failure of the database layer (connection failure, query error, missing
\* result field) the envelope has success = false and an error message, and
\* after a call in which nothing failed it has success = true.
C14_NeverRaisesAndFlagsFailure ==
    Called =>
       /\ ~tool.raised
       /\ tool.failure # "none" =>
             /\ envelope.success = FALSE
             /\ "error" \in DOMAIN envelope
       /\ tool.failure = "none" => envelope.success = TRUE

\* check_file_size has read a row without size_mb and returned the error
C14_Witness ==
    /\ tool = [name |-> "check_file_size", failure |-> "missing_field",
               raised |-> FALSE]
    /\ envelope = ErrorReport("'size_mb'")

\* the status vocabulary of the result envelope
StatusVocabulary ==
    {"NORMAL", "WARNING", "SLOW", "DEADLOCK_DETECTED", "ABNORMAL", "ERROR"}

\* C15: every envelope returned by one of the five tool operations carries
\* a status, and the status is one of NORMAL, WARNING, SLOW,
\* DEADLOCK_DETECTED, ABNORMAL, ERROR.
C15_StatusInVocabulary ==
    (Called /\ ~tool.raised) =>
       /\ "status" \in DOMAIN envelope
       /\ envelope.status \in StatusVocabulary

\* C16: when check_deadlocks returns no edge, check_deadlock returns an
\* envelope with success = true and status NORMAL.
C16_EmptyIsNormal ==
    (tool.name = "check_deadlock" /\ ~call.raised /\ call.rows = <<>>) =>
       /\ envelope.success
       /\ "status" \in DOMAIN envelope
       /\ envelope.status = "NORMAL"

(* ---------------- claims: connect and disconnect ----------------------- *)
\* C17: disconnect raises nothing and leaves _connection None, however many
\* times it is called, on a handle never connected, on one whose connect
\* failed, and on one already disconnected; a disconnect right after a
\* disconnect changes nothing.
C17_DisconnectIdempotent ==
    \A i \in DOMAIN ops :
       ops[i].op = "disconnect" =>
          /\ ~ops[i].raised
          /\ ops[i].after = "None"
          /\ (i > 1 /\ ops[i - 1].op = "disconnect") =>
                ops[i].after = ops[i].before

\* disconnect was called on a new handle, again after a failed connect, and
\* once more
C17_Witness ==
    /\ Len(ops) = 4
    /\ ops[1].op = "disconnect"
    /\ ops[2].op = "connect" /\ ops[2].raised
    /\ ops[3].op = "disconnect"
    /\ ops[4].op = "disconnect"
    /\ connection = "None"

\* C18: when the engine is unreachable, connect raises to its caller and
\* leaves _connection as it was: None on a handle that had no connection.
C18_ConnectFailureRaised ==
    \A i \in DOMAIN ops :
       (ops[i].op = "connect" /\ ~ops[i].reachable) =>
          /\ ops[i].raised
          /\ ops[i].after = ops[i].before
          /\ ops[i].before = "None" => ops[i].after = "None"

\* connect failed on a handle that had no connection
C18_Witness ==
    /\ ops # <<>>
    /\ ops[Len(ops)] = Op("connect", FALSE, "None", "None", TRUE)
    /\ connection = "None"

(* ------------------ claims: a failed diagnostic query ------------------ *)
\* the detector's query raised in the last check_deadlock call
QueryFailed ==
    /\ tool.name = "check_deadlock"
    /\ tool.failure = "query"
    /\ call.raised

RoundOver ==
    /\ mpc = "end"
    /\ \A t \in Txns : pc[t] = "done" /\ conn[t] = "closed" /\ cur[t] = "closed"
    /\ \E v \in Txns :
          /\ hist.victims = {v}
          /\ hist.caught[v] # "none" /\ result[v] = "rolledback"
          /\ hist.got2[Other(v)] /\ result[Other(v)] = "committed"
    /\ pg_locks = {}

\* C20: with every thread scheduled and an engine that aborts one
\* participant of a cycle, a round in which both scripts have passed the
\* barrier ends: the victim rolls back and closes, the survivor is granted
\* its lock, commits and closes; and the joins of run_deadlock_round are
\* passed only once both threads have ended.
C20_RoundTerminates ==
    /\ (Cleared /\ hist.passed[1] /\ hist.passed[2]) ~> RoundOver
    /\ [](mpc \in {"end", "stop"} => \A t \in Txns : pc[t] = "done")

\* the second round is over, after a cycle
C20_Witness == RoundOver /\ hist.cycle /\ round = MaxRounds

(* ------------------- claims: the barrier has no timeout ---------------- *)
\* both threads of the round were started, t is in wait() and its peer
\* has ended without ever setting its event
PeerGone(t) ==
    /\ mpc \in {"join1", "join2"}
    /\ pc[t] = "wait"
    /\ pc[Other(t)] = "done" /\ ~hist.set[Other(t)]

\* t holds its first row lock inside a transaction it has not ended, and
\* the event it waits on is clear
HoldsAndWaits(t) ==
    /\ ~PeerEventSet(t)
    /\ Holds(t, FirstRow(t))
    /\ result[t] = "none"
    /\ conn[t] = "open"

\* C21: a script leaves wait() only when its peer has set its event in the
\* current round; once the peer has ended without setting it, every later
\* state has the script still in wait(), holding its first row lock with
\* neither commit nor rollback done, the main thread still in a join() of
\* the same round, and the round counter unchanged.
C21_WaitNeverTimesOut ==
    [][\A t \in Txns :
          /\ (pc[t] = "wait" /\ pc'[t] # "wait")
                => (PeerEventSet(t) /\ hist.set[Other(t)])
          /\ PeerGone(t)
                => /\ HoldsAndWaits(t)
                   /\ PeerGone(t)' /\ HoldsAndWaits(t)'
                   /\ round' = round /\ log' = log]_vars

\* txn1's connect raised, txn2 took its row, set its event and waits; the
\* main thread has passed t1.join() and is in t2.join()
C21_Witness ==
    /\ PeerGone(2) /\ HoldsAndWaits(2)
    /\ mpc = "join2" /\ raised[1] /\ conn[1] = "none"
    /\ lock2_acquired

(* ------------- claims: the envelope of check_deadlock ------------------ *)
\* the transactions list has one entry per returned edge, in the order of
\* the edges, naming the edge's two sessions
EntriesMatch ==
    /\ DOMAIN envelope.transactions = DOMAIN call.rows
    /\ \A i \in DOMAIN call.rows :
          /\ envelope.transactions[i].blocked_session = call.rows[i].blocked_pid
          /\ envelope.transactions[i].blocking_session = call.rows[i].blocking_pid
          /\ envelope.transactions[i].blocked_session
                # envelope.transactions[i].blocking_session

\* one row-lock collision: one session holds a row, one other waits for it,
\* and the lock table holds nothing else
OneCollision ==
    \E x, y \in pg_locks :
       /\ ContentionPair(x, y)
       /\ x.res.locktype = "tuple"
       /\ pg_locks = {x, y}

\* C22 as stated: every envelope of a check_deadlock call whose query
\* returned has deadlocks_detected true iff edges were returned, a
\* deadlock_count equal to the number of edges and a transactions list with
\* one entry per edge.
C22_CountAlwaysReported ==
    Returned1 =>
       /\ envelope.success
       /\ envelope.deadlocks_detected <=> (call.rows # <<>>)
       /\ "deadlock_count" \in DOMAIN envelope
       /\ envelope.deadlock_count = Len(call.rows)
       /\ "transactions" \in DOMAIN envelope
       /\ EntriesMatch

\* C22 amended: deadlocks_detected is true iff edges were returned; when
\* edges were returned deadlock_count is their number and transactions has
\* one entry per edge, in the same order, with blocked_session and
\* blocking_session the edge's blocked_pid and blocking_pid, which differ;
\* when no edge was returned the envelope has neither a deadlock_count nor
\* a transactions field; after one row-lock collision deadlock_count is 1.
C22_ReportsDetectorRows ==
    Returned1 =>
       /\ envelope.success
       /\ envelope.deadlocks_detected <=> (call.rows # <<>>)
       /\ call.rows # <<>> =>
             /\ envelope.deadlock_count = Len(call.rows)
             /\ EntriesMatch
       /\ call.rows = <<>> =>
             /\ "deadlock_count" \notin DOMAIN envelope
             /\ "transactions" \notin DOMAIN envelope
       /\ OneCollision =>
             /\ envelope.deadlocks_detected
             /\ envelope.deadlock_count = 1

\* two edges were reported, the second of them with the longer wait
C22_Witness ==
    /\ Returned1
    /\ Len(call.rows) = 2
    /\ envelope.deadlock_count = 2
    /\ EntriesMatch
    /\ envelope.transactions[1].wait_time_ms < envelope.transactions[2].wait_time_ms
    /\ envelope.transactions[1].blocked_session
          # envelope.transactions[2].blocked_session

(* --------------- claims: the detector during a round ------------------- *)
\* the sessions of the two scripts
ScriptSessions(activity) == {a \in activity : a.pid \in Txns}

\* both edges of the cycle: txn1 blocked by txn2 and txn2 blocked by txn1
BothEdges(rows) ==
    /\ Len(rows) = 2
    /\ \E i, k \in DOMAIN rows :
          /\ rows[i].blocked_pid = 1 /\ rows[i].blocking_pid = 2
          /\ rows[i].via = <<LockRow(1, SecondRow(1), FALSE),
                             LockRow(2, FirstRow(2), TRUE)>>
          /\ rows[k].blocked_pid = 2 /\ rows[k].blocking_pid = 1
          /\ rows[k].via = <<LockRow(2, SecondRow(2), FALSE),
                             LockRow(1, FirstRow(1), TRUE)>>

\* C23: in every state of a round check_deadlock can be called; a call
\* changes nothing of the trigger (events, threads, connections, round),
\* nothing of the lock table and nothing of the scripts' sessions; and a
\* call made while the circular wait is formed returns the two edges of
\* the cycle, txn1 blocked by txn2 and txn2 blocked by txn1, which the
\* envelope reports as two transactions.
C23_CycleSeenRoundUntouched ==
    /\ [](ncalls < MaxCalls => ENABLED CheckDeadlock)
    /\ [][DetectorCall =>
             /\ UNCHANGED triggerVars
             /\ pg_locks' = pg_locks
             /\ ScriptSessions(pg_stat_activity') = ScriptSessions(pg_stat_activity)
             /\ (CircularWait /\ ~call'.raised) =>
                   /\ BothEdges(call'.rows)
                   /\ envelope'.deadlocks_detected
                   /\ envelope'.deadlock_count = 2]_vars

\* the circular wait of the second round is formed and the call just made
\* returned its two edges; the call before it was made in the first round
C23_Witness ==
    /\ CircularWait /\ round = 2
    /\ ncalls = 2 /\ ~call.raised
    /\ BothEdges(call.rows)
    /\ envelope.success /\ envelope.deadlock_count = 2

(* ------------- claims: one transaction per script ---------------------- *)
\* the errors except psycopg2.Error catches (lines 41, 71)
DatabaseErrors == {"dberr", "deadlock"}

\* this step is the script's conn.commit() / conn.rollback() returning
Commits(t) == result[t] # "committed" /\ result'[t] = "committed"
RollsBack(t) == result[t] # "rolledback" /\ result'[t] = "rolledback"

\* this step takes a row lock from the script
LosesLock(t) == \E l \in pg_locks : l.pid = t /\ l.granted /\ l \notin pg_locks'

\* C24: a script commits only while it holds both row locks, each granted
\* to it in this round, and with no error raised; it rolls back only with a
\* database error caught; once one of its statements has raised a database
\* error it does not commit; and between its first lock and the end of its
\* transaction (commit, rollback, the engine's abort of the failed
\* transaction, or the close of the connection) it loses no lock.
C24_OneTransactionPerScript ==
    [][\A t \in Txns :
          /\ Commits(t) =>
                /\ hist.got1[t] /\ hist.got2[t]
                /\ Holds(t, FirstRow(t)) /\ Holds(t, SecondRow(t))
                /\ err[t] = "none" /\ hist.caught[t] = "none"
          /\ RollsBack(t) => err[t] \in DatabaseErrors
          /\ (err[t] \in DatabaseErrors \/ hist.caught[t] # "none")
                => ~Commits(t)
          /\ LosesLock(t) =>
                \/ Commits(t)
                \/ RollsBack(t)
                \/ err[t] = "none" /\ err'[t] \in DatabaseErrors
                \/ pc[t] = "finally" /\ conn'[t] = "closed"]_vars

\* one script has committed holding both rows, the other has rolled back
\* after an error that was not the deadlock abort
C24_Witness ==
    \E t \in Txns :
       /\ result[t] = "committed" /\ hist.got1[t] /\ hist.got2[t]
       /\ hist.caught[t] = "none"
       /\ result[Other(t)] = "rolledback" /\ hist.caught[Other(t)] = "dberr"
       /\ hist.got1[Other(t)]

(* ------------------ claims: the cursor() context manager --------------- *)
\* the uses of cursor() that have ended after their body ran
Used == {c \in Callers : caller[c].pc = "done" /\ caller[c].use.body # "none"}

\* a handle found without a connection was connected before the cursor
\* was opened
ConnectedFirst(c) ==
    caller[c].use.found = "None" => caller[c].use.connected

\* C25 as stated: after a body that completed normally commit was called
\* and rollback was not, and nothing is raised; after a body that raised,
\* rollback was called, commit was not, and the body's exception is the
\* one raised; the cursor is closed; a handle without a connection was
\* connected first.
C25_CommitXorRollback ==
    \A c \in Used :
       /\ caller[c].use.body = "returned" =>
             (caller[c].use.ends = <<"commit">> /\ caller[c].use.error = "none")
       /\ caller[c].use.body = "raised" =>
             (caller[c].use.ends = <<"rollback">> /\ caller[c].use.error = "body")
       /\ caller[c].use.closed
       /\ ConnectedFirst(c)

\* C25 amended: after a body that completed normally commit is called; if
\* it returns nothing is rolled back and nothing raised, if it raises
\* rollback is called and an exception raised.  After a body that raised,
\* rollback is called and commit is not.  The exception raised is the one
\* the except clause caught (the body's or commit's) when rollback
\* returns, and rollback's own when rollback raises.  In every case the
\* cursor is closed, and a handle without a connection was connected first.
C25_EndsTransactionOnce ==
    \A c \in Used :
       LET u == caller[c].use
           last == u.ends[Len(u.ends)]
       IN  /\ u.body = "returned" =>
                 /\ u.ends \in {<<"commit">>,
                                <<"commit raised", "rollback">>,
                                <<"commit raised", "rollback raised">>}
                 /\ u.ends = <<"commit">> <=> u.error = "none"
                 /\ u.ends = <<"commit raised", "rollback">> <=> u.error = "commit"
           /\ u.body = "raised" =>
                 /\ u.ends \in {<<"rollback">>, <<"rollback raised">>}
                 /\ u.ends = <<"rollback">> <=> u.error = "body"
           /\ last = "rollback raised" <=> u.error = "rollback"
           /\ (u.error # "none") <=> (caller[c].res = "error")
           /\ u.closed
           /\ ConnectedFirst(c)

\* one use found no connection, connected, and its statement raised: it
\* rolled back and re-raised; the other use found that connection and
\* committed
C25_Witness ==
    \E c \in Used :
       /\ caller[c].use = [found |-> "None", connected |-> TRUE,
                           body |-> "raised", ends |-> <<"rollback">>,
                           error |-> "body", closed |-> TRUE]
       /\ \E d \in Used \ {c} :
             /\ caller[d].use.found # "None"
             /\ caller[d].use.ends = <<"commit">>
             /\ caller[d].res = "ok"

(* ---------------------- claims: the singleton -------------------------- *)
\* the DatabaseConnection objects created so far
Created == {o \in Objects : objects[o] # "absent"}

\* positions of a call after get_db_connection has returned
AfterReturn == {"cursor", "connect2", "open", "execute", "commit", "rollback",
                "close"}

\* C26: in sequential use at most one DatabaseConnection is ever created,
\* the registered object is never replaced, and every call that
\* get_db_connection returned to holds that object; when the connect of
\* the creating call raises, that call ends with the error and the object
\* stays registered without a connection; a later call finds it, neither
\* creates nor connects in get_db_connection, and its cursor() connects.
C26_OneSingletonConnectDeferred ==
    /\ [](Cardinality(Created) <= 1)
    /\ [](\A c \in Callers :
            /\ caller[c].pc \in AfterReturn =>
                  (caller[c].db = db_connection /\ db_connection \in Created)
            /\ caller[c].pc \in {"create", "connect"} =>
                  (ncalls >= 1 /\ Created \subseteq {db_connection}))
    /\ [][\A c \in Callers :
             /\ db_connection # "None" => db_connection' = db_connection
             /\ (caller[c].pc = "connect" /\ caller'[c].pc = "done") =>
                   /\ caller'[c].res = "error"
                   /\ db_connection' = Object(c)
                   /\ objects'[Object(c)] = "None"
             /\ (caller[c].pc = "get" /\ db_connection # "None") =>
                   caller'[c].pc \in {"get", "return"}
             /\ (caller[c].pc = "cursor" /\ objects[caller[c].db] = "None") =>
                   caller'[c].pc \in {"cursor", "connect2"}]_vars

\* the first call created the object and its connect raised; the next
\* call, of the other thread, was returned the same object without a
\* connection, connected it in cursor() and succeeded
C26_Witness ==
    \E c \in Callers :
       /\ ncalls = 2
       /\ caller[c].pc = "done" /\ caller[c].res = "error"
       /\ caller[c].use = NoUse
       /\ db_connection = Object(c)
       /\ caller[Other(c)].pc = "done" /\ caller[Other(c)].res = "ok"
       /\ caller[Other(c)].db = Object(c)
       /\ caller[Other(c)].use.found = "None"
       /\ caller[Other(c)].use.connected
       /\ objects[Object(c)] = Conn(Other(c))

(* -------------- claims: the envelope of a timed query ------------------ *)
\* the check_query_response_time tool has returned the envelope of a query
\* it executed and timed
TimedEnvelope ==
    /\ tool.name = "check_query_response_time"
    /\ envelope.success
    /\ "is_slow" \in DOMAIN envelope

\* C27: in every envelope of an executed query, with the default or an
\* overridden threshold, status is SLOW iff is_slow, is_slow iff
\* response_time_ms is greater than the threshold_ms of the envelope,
\* status is NORMAL otherwise, and recommendations is non-empty iff is_slow.
C27_EnvelopeSelfConsistent ==
    TimedEnvelope =>
       /\ envelope.status = "SLOW" <=> envelope.is_slow
       /\ ~envelope.is_slow => envelope.status = "NORMAL"
       /\ envelope.is_slow <=> (envelope.response_time_ms > envelope.threshold_ms)
       /\ (envelope.recommendations # <<>>) <=> envelope.is_slow

=============================================================================
